---- MODULE Spec2Model ----
(***************************************************************************)
(* Model of the bidirectional file synchronisation example of lokus         *)
(* (docs/mcp-server/examples/file-sync.py): the three-way sync planner,     *)
(* the full reconciliation pass of FileSyncManager.sync_files, the          *)
(* debounced incremental path of FileSyncManager.handle_local_change, and   *)
(* the JSON-RPC request correlation of MCPFileSyncClient (the same code as  *)
(* LokusMCPClient of docs/mcp-server/examples/python-client.py).            *)
(*                                                                         *)
(* Optional values (Python None / object) are sequences of length <= 1.     *)
(***************************************************************************)
EXTENDS Integers, Sequences, FiniteSets, TLC

\* ------------------------------------------------------------------ bounds
\* Modification times drawn for the planner's inputs are 1..MaxMtime.
MaxMtime == 3
\* Full passes started in one behaviour.
MaxPasses == 2
\* Local-change notifications delivered in one behaviour.
MaxNotify == 2
\* Latest time the clock is advanced to while tasks sleep.
MaxTime == 3
\* Events outside the engine's control in one behaviour: edits made by the
\* user and by other remote clients, and I/O operations and requests that fail.
MaxDisturbances == 1
\* Requests made through send_request in one behaviour, after the handshake.
MaxRequests == 2
\* Notifications waiting on the socket when the reader starts.
MaxPushes == 2
\* Handlers registered with on() in one behaviour.
MaxHandlers == 2
\* Lexical pieces that follow the opening parenthesis in a scanned text.
MaxPieces == 4

\* ------------------------------------------------------------- data model
None == <<>>
Some(x) == <<x>>
IsSome(o) == o # <<>>
Val(o) == o[1]
Opt(S) == {None} \cup {Some(x) : x \in S}

Paths == {"a.md", "b.md"}
\* the paths the snapshot of an earlier run tracks, and the paths edited by
\* the user and by other clients while the engine runs
TrackedAtStartup == {"a.md"}
EditedPaths == {"a.md"}
\* file contents the model distinguishes, and their md5 digests
Contents == {"c1", "c2"}
Checksums == {"h1", "h2"}
Policies == {"ask", "local_wins", "remote_wins", "keep_both"}
\* tasks that call sync_files: the periodic loop and a one-shot caller
Callers == {"periodic", "oneshot"}

\* a file of local_dir whose name starts with a dot: the snapshot file
HiddenPaths == {".lokus-sync-metadata.json"}
\* handle_local_change: asyncio.sleep(2)
DebounceDelay == 2

\* calculate_file_checksum: the md5 digest of the file's bytes
calculate_file_checksum(content) == IF content = "c1" THEN "h1" ELSE "h2"
\* stat().st_size of a file holding the content
SizeOf(content) == IF content = "c1" THEN 1 ELSE 2

\* FileMetadata.__init__: sync_state starts 'unknown'; the path is the key
\* of the dictionaries that hold the record.
FileMetadata(size, mtime, checksum) ==
    [size |-> size, mtime |-> mtime, checksum |-> checksum, sync_state |-> "unknown"]

\* a file on disk or in the remote workspace
File(content, mtime) == [content |-> content, mtime |-> mtime]

\* ---------------------------------------------------------------- state
VARIABLES
    conflict_resolution,  \* FileSyncManager.conflict_resolution
    in_path,              \* planner input: relative_path
    in_local,             \* planner input: local_meta (optional)
    in_remote,            \* planner input: remote_meta (optional)
    in_stored,            \* planner input: stored_meta (optional)
    planned,              \* <<"pending", None>>, or <<"done", optional action>>
    now,                  \* wall clock; every write of a file takes time
    local_fs,             \* local_dir: path -> optional File
    remote_fs,            \* remote workspace under remote_dir: path -> optional File
    conflict_copies,      \* aside copies in local_dir: set of <<path, content>>
    file_metadata,        \* FileSyncManager.file_metadata: path -> optional meta
    metadata_file,        \* bytes of .lokus-sync-metadata.json
    is_syncing,           \* FileSyncManager.is_syncing
    stats,                \* FileSyncManager.stats
    pc,                   \* caller -> position inside sync_files
    local_files,          \* caller -> local of sync_files (the local scan)
    remote_files,         \* caller -> local of sync_files (the remote scan)
    actions,              \* caller -> local of sync_files (the plan)
    idx,                  \* caller -> actions of the plan already executed
    inflight,             \* caller -> optional request awaited by the executor
    last_call,            \* caller -> how its latest sync_files call began
    passes,               \* full passes started
    disturbances,         \* external edits and failed I/O operations so far
    pending_changes,      \* FileSyncManager.pending_changes
    tasks,                \* the handle_local_change tasks, in creation order
    ws,                   \* MCPFileSyncClient.ws: "none", "open" or "closed"
    message_id,           \* MCPFileSyncClient.message_id
    pending_requests,     \* keys of MCPFileSyncClient.pending_requests
    futures,              \* request id -> state of the asyncio.Future made for it
    calls,                \* requester -> its current call of send_request
    issued,               \* ids given out by send_request, in call order
    server_rx,            \* requests the server received and may answer
    inbox,                \* messages received on the socket, not yet read
    reader,               \* the _handle_messages task
    is_initialized,       \* MCPFileSyncClient.is_initialized
    connected,            \* how connect() ended, once it has ended
    subscriptions,        \* MCPFileSyncClient.subscriptions
    event_handlers,       \* LokusMCPClient.event_handlers: method -> handlers
    invocations,          \* the handler invocations made so far, in order
    scan_content,         \* find_balanced_end: content, a sequence of characters
    start_index,          \* find_balanced_end: start_index
    scan_i,               \* find_balanced_end: i
    depth,                \* find_balanced_end: depth
    scan_state,           \* find_balanced_end: state
    scan_result           \* find_balanced_end: the value returned, once it returned

plannerVars == <<in_path, in_local, in_remote, in_stored, planned>>
scanVars == <<scan_content, start_index, scan_i, depth, scan_state, scan_result>>
envVars == <<now, local_fs, remote_fs, conflict_copies, disturbances>>
snapshotVars == <<file_metadata, metadata_file>>
frameVars == <<pc, local_files, remote_files, actions, idx, inflight>>
managerVars == <<is_syncing, stats, last_call, passes>>
watchVars == <<pending_changes, tasks>>
sessionVars == <<is_initialized, connected, subscriptions>>
notifyVars == <<event_handlers, invocations>>
clientVars == <<ws, message_id, pending_requests, futures, calls, issued,
                server_rx, inbox, reader, sessionVars, notifyVars>>
vars == <<conflict_resolution, plannerVars, scanVars, envVars, snapshotVars, frameVars,
          managerVars, watchVars, clientVars>>

\* ------------------------------------------------------------- the planner
Action(kind, path, reason) == [action |-> kind, path |-> path, reason |-> reason]

\* mutant: the 'ask' test left out of the delete conflict
handle_delete_conflict_no_ask(policy, relative_path, conflict_type) ==
    IF conflict_type = "remote_deleted"
    THEN Action("delete_local", relative_path, "sync_deletion")
    ELSE Action("delete_remote", relative_path, "sync_deletion")

\* handle_delete_conflict: 'ask' skips, every other policy propagates the
\* deletion to the side that still has the file.
handle_delete_conflict(policy, relative_path, conflict_type) ==
    IF policy = "ask"
    THEN Action("skip", relative_path, "delete_conflict")
    ELSE IF conflict_type = "remote_deleted"
         THEN Action("delete_local", relative_path, "sync_deletion")
         ELSE Action("delete_remote", relative_path, "sync_deletion")

\* mutant: the two winning sides swapped
handle_content_conflict_swapped(policy, relative_path, local_meta, remote_meta) ==
    IF policy = "local_wins"
    THEN Action("download", relative_path, "conflict_local_wins")
    ELSE IF policy = "remote_wins"
    THEN Action("upload", relative_path, "conflict_remote_wins")
    ELSE IF policy = "keep_both"
    THEN Action("keep_both", relative_path, "conflict_keep_both")
    ELSE Action("skip", relative_path, "conflict_requires_resolution")

handle_content_conflict(policy, relative_path, local_meta, remote_meta) ==
    IF policy = "local_wins"
    THEN Action("upload", relative_path, "conflict_local_wins")
    ELSE IF policy = "remote_wins"
    THEN Action("download", relative_path, "conflict_remote_wins")
    ELSE IF policy = "keep_both"
    THEN Action("keep_both", relative_path, "conflict_keep_both")
    ELSE Action("skip", relative_path, "conflict_requires_resolution")

\* mutant: the two change signals joined by "and" instead of "or"
local_changed_both_signals(local_meta, stored_meta) ==
    /\ local_meta.mtime # stored_meta.mtime
    /\ local_meta.checksum # stored_meta.checksum

local_changed(local_meta, stored_meta) ==
    \/ local_meta.mtime # stored_meta.mtime
    \/ local_meta.checksum # stored_meta.checksum

\* mutant: the remote side also compared by size, which a listing never carries
remote_changed_by_size(remote_meta, stored_meta) ==
    \/ remote_meta.mtime # stored_meta.mtime
    \/ remote_meta.size # stored_meta.size

\* mutant: an entry tagged 'synced' is trusted to match the remote side
remote_changed_unless_synced(remote_meta, stored_meta) ==
    /\ remote_meta.mtime # stored_meta.mtime
    /\ stored_meta.sync_state # "synced"

remote_changed(remote_meta, stored_meta) ==
    remote_meta.mtime # stored_meta.mtime

\* mutant: every file found on one side only is treated as a delete conflict
only_local_no_history_check(policy, relative_path, stored_meta) ==
    Some(handle_delete_conflict(policy, relative_path, "remote_deleted"))

\* "File exists only locally"
only_local(policy, relative_path, stored_meta) ==
    IF ~IsSome(stored_meta)
    THEN Some(Action("upload", relative_path, "new_local_file"))
    ELSE Some(handle_delete_conflict(policy, relative_path, "remote_deleted"))

\* "File exists only remotely"
only_remote(policy, relative_path, stored_meta) ==
    IF ~IsSome(stored_meta)
    THEN Some(Action("download", relative_path, "new_remote_file"))
    ELSE Some(handle_delete_conflict(policy, relative_path, "local_deleted"))

\* mutant: a local change is uploaded without looking at the remote side
both_present_local_first(policy, relative_path, local_meta, remote_meta, stored_meta) ==
    IF ~IsSome(stored_meta)
    THEN Some(handle_content_conflict(policy, relative_path, local_meta, remote_meta))
    ELSE IF local_changed(local_meta, Val(stored_meta))
    THEN Some(Action("upload", relative_path, "local_modified"))
    ELSE IF remote_changed(remote_meta, Val(stored_meta))
    THEN Some(Action("download", relative_path, "remote_modified"))
    ELSE None

\* "File exists in both places"
both_present(policy, relative_path, local_meta, remote_meta, stored_meta) ==
    IF ~IsSome(stored_meta)
    THEN Some(handle_content_conflict(policy, relative_path, local_meta, remote_meta))
    ELSE LET lc == local_changed(local_meta, Val(stored_meta))
             rc == remote_changed(remote_meta, Val(stored_meta))
         IN  IF lc /\ ~rc
             THEN Some(Action("upload", relative_path, "local_modified"))
             ELSE IF rc /\ ~lc
             THEN Some(Action("download", relative_path, "remote_modified"))
             ELSE IF lc /\ rc
             THEN Some(handle_content_conflict(policy, relative_path,
                                               local_meta, remote_meta))
             ELSE None

\* mutant: the fall-through returns an action instead of None
determine_sync_action_never_none(policy, relative_path, local_meta, remote_meta, stored_meta) ==
    IF IsSome(local_meta) /\ ~IsSome(remote_meta)
    THEN only_local(policy, relative_path, stored_meta)
    ELSE IF IsSome(remote_meta) /\ ~IsSome(local_meta)
    THEN only_remote(policy, relative_path, stored_meta)
    ELSE IF IsSome(local_meta) /\ IsSome(remote_meta)
    THEN both_present(policy, relative_path, Val(local_meta), Val(remote_meta),
                      stored_meta)
    ELSE Some(Action("skip", relative_path, "no_changes"))

\* determine_sync_action: the optional action for one path.
determine_sync_action(policy, relative_path, local_meta, remote_meta, stored_meta) ==
    IF IsSome(local_meta) /\ ~IsSome(remote_meta)
    THEN only_local(policy, relative_path, stored_meta)
    ELSE IF IsSome(remote_meta) /\ ~IsSome(local_meta)
    THEN only_remote(policy, relative_path, stored_meta)
    ELSE IF IsSome(local_meta) /\ IsSome(remote_meta)
    THEN both_present(policy, relative_path, Val(local_meta), Val(remote_meta),
                      stored_meta)
    ELSE None

\* execute_single_action: the kinds of action whose handler removes the local
\* file (delete_local_file) or writes over it (download_file) without first
\* copying it aside, as create_conflict_copy does for keep_both
replaces_local_without_copy(kind) == kind \in {"delete_local", "download"}

\* --------------------------------------------- planner as a state machine
Mtimes == 1..MaxMtime
\* local scans: a size, an mtime and an md5 digest
LocalMetas ==
    {FileMetadata(SizeOf(c), m, calculate_file_checksum(c)) : m \in Mtimes, c \in Contents}
\* remote listings carry no size and, unless the server exposes one, no digest
RemoteMetas == {FileMetadata(0, m, c) : m \in Mtimes, c \in Checksums \cup {""}}
\* stored entries are earlier local scans, with whatever advisory tag the
\* snapshot file recorded
StoredMetas ==
    {[m EXCEPT !.sync_state = t] : m \in LocalMetas, t \in {"unknown", "synced"}}

\* the planner's inputs while the planner is not the machine under study
PlannerIdle ==
    /\ in_path = "a.md"
    /\ in_local = None
    /\ in_remote = None
    /\ in_stored = None
    /\ planned = <<"idle", None>>

\* find_balanced_end has not been called
ScanIdle ==
    /\ scan_content = <<>>
    /\ start_index = 0
    /\ scan_i = 0
    /\ depth = 0
    /\ scan_state = "CODE"
    /\ scan_result = None

\* ------------------------------------------------- the sync manager: state
NoFiles == [p \in Paths |-> None]
NoRequest == None

\* FileSyncManager.__init__: the statistics block
InitialStats ==
    [files_synced |-> 0, conflicts_resolved |-> 0, errors |-> 0, last_sync |-> None]

\* save_metadata: the JSON document built from the snapshot and the statistics
SnapshotDocument(files, st) == <<"data", files, st>>

\* sync_files has not been entered: its locals do not exist
FrameIdle ==
    /\ pc = [c \in Callers |-> "idle"]
    /\ local_files = [c \in Callers |-> NoFiles]
    /\ remote_files = [c \in Callers |-> NoFiles]
    /\ actions = [c \in Callers |-> <<>>]
    /\ idx = [c \in Callers |-> 0]
    /\ inflight = [c \in Callers |-> NoRequest]

ManagerIdle ==
    /\ is_syncing = FALSE
    /\ stats = InitialStats
    /\ last_call = [c \in Callers |-> "none"]
    /\ passes = 0

\* no change notification has been delivered
WatchIdle ==
    /\ pending_changes = {}
    /\ tasks = <<>>

\* the requesters that may call send_request at the same time: the executor
\* of a full pass and the single-file sync of a change notification
Requesters == {"full_pass", "single_file"}

\* the tasks that call subscribe_to_changes, and the uri each subscribes to
Subscribers == {"subscriber_a", "subscriber_b"}
UriOf(r) == "file://notes"

\* connect(), which calls send_request through initialize()
Connector == "connect"

\* every caller of send_request
Clients == Requesters \cup Subscribers \cup {Connector}

\* the method each caller asks for
MethodOf(r) ==
    CASE r = "full_pass" -> "resources/read"
      [] r = "single_file" -> "tools/call"
      [] r \in Subscribers -> "resources/subscribe"
      [] r = Connector -> "initialize"

\* the methods of the notifications a server pushes, and the handlers an
\* application registers with on()
NotificationMethods ==
    {"notifications/resources/updated", "notifications/tools/list_changed"}
Handlers == {"handler_a", "handler_b"}

\* ids that send_request can give out; id 1 is used by initialize
RequestIds == 1..(MaxRequests + 1)

NoCall == [pc |-> "idle", id |-> 0, deadline |-> 0, outcome |-> None]

\* MCPFileSyncClient.__init__: not connected, nothing sent
ClientIdle ==
    /\ ws = "none"
    /\ message_id = 1
    /\ pending_requests = {}
    /\ futures = [i \in RequestIds |-> <<"none">>]
    /\ calls = [r \in Clients |-> NoCall]
    /\ issued = <<>>
    /\ server_rx = {}
    /\ inbox = <<>>
    /\ reader = "none"
    /\ is_initialized = FALSE
    /\ connected = None
    /\ subscriptions = {}
    /\ event_handlers = <<>>
    /\ invocations = <<>>

\* the sync manager while the planner alone is under study
SyncIdle ==
    /\ now = 0
    /\ local_fs = NoFiles
    /\ remote_fs = NoFiles
    /\ conflict_copies = {}
    /\ disturbances = 0
    /\ file_metadata = NoFiles
    /\ metadata_file = <<"absent">>
    /\ FrameIdle
    /\ ManagerIdle
    /\ WatchIdle
    /\ ClientIdle

PlannerInit ==
    /\ conflict_resolution \in Policies
    /\ in_path \in Paths
    /\ in_local \in Opt(LocalMetas)
    /\ in_remote \in Opt(RemoteMetas)
    /\ in_stored \in Opt(StoredMetas)
    /\ planned = <<"pending", None>>
    /\ ScanIdle
    /\ SyncIdle

PlanOne ==
    /\ planned[1] = "pending"
    /\ planned' = <<"done", determine_sync_action(conflict_resolution, in_path,
                                                  in_local, in_remote, in_stored)>>
    /\ UNCHANGED <<clientVars, conflict_resolution, in_path, in_local, in_remote, in_stored>>
    /\ UNCHANGED scanVars
    /\ UNCHANGED <<envVars, snapshotVars, frameVars, managerVars, watchVars>>

PlannerNext == PlanOne

SpecPlanner == PlannerInit /\ [][PlannerNext]_vars

\* --------------------------------------------- the sync manager: full pass
\* State after FileSyncManager.__init__ and initialize(): the local
\* directory and the workspace hold whatever earlier runs and other users left
\* there, and load_metadata has read the snapshot an earlier run saved.
SyncInit ==
    /\ conflict_resolution \in Policies
    /\ PlannerIdle
    /\ ScanIdle
    /\ now = 1
    /\ local_fs \in [Paths -> Opt({File("c1", 0)})]
    /\ remote_fs \in [Paths -> Opt({File("c1", 0)})]
    /\ conflict_copies = {}
    /\ disturbances = 0
    /\ file_metadata \in
          {f \in [Paths -> Opt({FileMetadata(1, 0, "h1")})] :
              \A p \in Paths \ TrackedAtStartup : f[p] = None}
    /\ metadata_file = IF file_metadata = NoFiles
                       THEN <<"absent">>
                       ELSE SnapshotDocument(file_metadata, InitialStats)
    /\ FrameIdle
    /\ ManagerIdle
    /\ WatchIdle
    /\ ClientIdle

\* an event outside the engine's control happens
Disturbance == disturbances < MaxDisturbances /\ disturbances' = disturbances + 1
\* an I/O operation or a request fails
Fault == Disturbance
NoFault == UNCHANGED disturbances

ResetFrame(c) ==
    /\ pc' = [pc EXCEPT ![c] = "idle"]
    /\ local_files' = [local_files EXCEPT ![c] = NoFiles]
    /\ remote_files' = [remote_files EXCEPT ![c] = NoFiles]
    /\ actions' = [actions EXCEPT ![c] = <<>>]
    /\ idx' = [idx EXCEPT ![c] = 0]
    /\ inflight' = [inflight EXCEPT ![c] = NoRequest]

\* mutant: the re-entrance guard left out
MayStartPass_unguarded == TRUE

\* sync_files: "if self.is_syncing: return"
MayStartPass == ~is_syncing

\* sync_files, entered while no pass runs: the guard is taken
SyncFilesStart(c) ==
    /\ pc[c] = "idle"
    /\ MayStartPass
    /\ passes < MaxPasses
    /\ is_syncing' = TRUE
    /\ passes' = passes + 1
    /\ last_call' = [last_call EXCEPT ![c] = "started"]
    /\ pc' = [pc EXCEPT ![c] = "scan_local"]
    /\ UNCHANGED <<local_files, remote_files, actions, idx, inflight, stats>>
    /\ UNCHANGED <<clientVars, conflict_resolution, plannerVars, scanVars, watchVars, envVars, snapshotVars>>

\* sync_files, entered while a pass runs: logs and returns
SyncFilesDropped(c) ==
    /\ pc[c] = "idle"
    /\ ~MayStartPass
    /\ last_call' = [last_call EXCEPT ![c] = "dropped"]
    /\ UNCHANGED <<is_syncing, stats, passes, frameVars>>
    /\ UNCHANGED <<clientVars, conflict_resolution, plannerVars, scanVars, watchVars, envVars, snapshotVars>>

\* get_local_files: the metadata of every file of local_dir
get_local_files ==
    [p \in Paths |->
        IF IsSome(local_fs[p])
        THEN Some(FileMetadata(SizeOf(Val(local_fs[p]).content),
                               Val(local_fs[p]).mtime,
                               calculate_file_checksum(Val(local_fs[p]).content)))
        ELSE None]

\* get_remote_files: no size and no checksum are available for remote files
get_remote_files ==
    [p \in Paths |->
        IF IsSome(remote_fs[p])
        THEN Some(FileMetadata(0, Val(remote_fs[p]).mtime, ""))
        ELSE None]

ScanLocal(c) ==
    /\ pc[c] = "scan_local"
    /\ local_files' = [local_files EXCEPT ![c] = get_local_files]
    /\ pc' = [pc EXCEPT ![c] = "scan_remote"]
    /\ UNCHANGED <<remote_files, actions, idx, inflight>>
    /\ UNCHANGED <<clientVars, conflict_resolution, plannerVars, scanVars, watchVars, envVars, snapshotVars, managerVars>>

\* the walk of local_dir raises: sync_files' except and finally clauses run
ScanLocalFails(c) ==
    /\ pc[c] = "scan_local"
    /\ Fault
    /\ stats' = [stats EXCEPT !.errors = @ + 1]
    /\ is_syncing' = FALSE
    /\ ResetFrame(c)
    /\ UNCHANGED <<last_call, passes>>
    /\ UNCHANGED <<now, local_fs, remote_fs, conflict_copies>>
    /\ UNCHANGED <<clientVars, conflict_resolution, plannerVars, scanVars, watchVars, snapshotVars>>

ScanRemote(c) ==
    /\ pc[c] = "scan_remote"
    /\ remote_files' = [remote_files EXCEPT ![c] = get_remote_files]
    /\ pc' = [pc EXCEPT ![c] = "plan"]
    /\ UNCHANGED <<local_files, actions, idx, inflight>>
    /\ UNCHANGED <<clientVars, conflict_resolution, plannerVars, scanVars, watchVars, envVars, snapshotVars, managerVars>>

\* list_files raises: get_remote_files logs it and returns the empty dict
ScanRemoteFails(c) ==
    /\ pc[c] = "scan_remote"
    /\ Fault
    /\ remote_files' = [remote_files EXCEPT ![c] = NoFiles]
    /\ pc' = [pc EXCEPT ![c] = "plan"]
    /\ UNCHANGED <<local_files, actions, idx, inflight>>
    /\ UNCHANGED <<now, local_fs, remote_fs, conflict_copies>>
    /\ UNCHANGED <<clientVars, conflict_resolution, plannerVars, scanVars, watchVars, snapshotVars, managerVars>>

\* plan_sync_actions: all_files, the union of the two scans' keys
all_files(local, remote) ==
    {p \in Paths : IsSome(local[p]) \/ IsSome(remote[p])}

\* plan_sync_actions: the actions determine_sync_action returns for all_files
planned_actions(local, remote) ==
    {Val(determine_sync_action(conflict_resolution, p, local[p], remote[p],
                               file_metadata[p])) :
        p \in {q \in all_files(local, remote) :
                 IsSome(determine_sync_action(conflict_resolution, q, local[q],
                                              remote[q], file_metadata[q]))}}

\* the orders in which a Python set may be iterated
Orderings(S) ==
    {q \in [1..Cardinality(S) -> S] : {q[i] : i \in DOMAIN q} = S}

Plan(c) ==
    /\ pc[c] = "plan"
    /\ \E order \in Orderings(planned_actions(local_files[c], remote_files[c])) :
          actions' = [actions EXCEPT ![c] = order]
    /\ idx' = [idx EXCEPT ![c] = 0]
    /\ pc' = [pc EXCEPT ![c] = "execute"]
    /\ UNCHANGED <<local_files, remote_files, inflight>>
    /\ UNCHANGED <<clientVars, conflict_resolution, plannerVars, scanVars, watchVars, envVars, snapshotVars, managerVars>>

\* --------------------------------------------- the sync manager: executor
Request(op, path, content) == [op |-> op, path |-> path, content |-> content]

\* the action execute_sync_actions' loop is at
Cur(c) == actions[c][idx[c] + 1]

\* the loop of execute_sync_actions is about to execute an action
AtAction(c, kind) ==
    /\ pc[c] = "execute"
    /\ idx[c] < Len(actions[c])
    /\ inflight[c] = NoRequest
    /\ Cur(c).action = kind

\* execute_sync_actions: execute_single_action returned
Succeed(c) ==
    /\ stats' = [stats EXCEPT !.files_synced = @ + 1]
    /\ idx' = [idx EXCEPT ![c] = @ + 1]
    /\ inflight' = [inflight EXCEPT ![c] = NoRequest]

\* mutant: the first failure ends the loop
Fail_aborts(c) ==
    /\ stats' = [stats EXCEPT !.errors = @ + 1]
    /\ idx' = [idx EXCEPT ![c] = Len(actions[c])]
    /\ inflight' = [inflight EXCEPT ![c] = NoRequest]

\* mutant: a failed action is counted as synced
Fail_counts_synced(c) ==
    /\ stats' = [stats EXCEPT !.files_synced = @ + 1]
    /\ idx' = [idx EXCEPT ![c] = @ + 1]
    /\ inflight' = [inflight EXCEPT ![c] = NoRequest]

\* execute_sync_actions: execute_single_action raised
Fail(c) ==
    /\ stats' = [stats EXCEPT !.errors = @ + 1]
    /\ idx' = [idx EXCEPT ![c] = @ + 1]
    /\ inflight' = [inflight EXCEPT ![c] = NoRequest]

\* the request is sent and the executor waits for its response
Await(c, req) ==
    /\ inflight' = [inflight EXCEPT ![c] = Some(req)]
    /\ UNCHANGED <<stats, idx>>

\* mutant: a skipped path loses its local file
ExecSkip_removes_local(c) ==
    /\ AtAction(c, "skip")
    /\ local_fs' = [local_fs EXCEPT ![Cur(c).path] = None]
    /\ Succeed(c)
    /\ UNCHANGED <<pc, local_files, remote_files, actions>>
    /\ UNCHANGED <<is_syncing, last_call, passes>>
    /\ UNCHANGED <<now, remote_fs, conflict_copies, disturbances>>
    /\ UNCHANGED <<clientVars, conflict_resolution, plannerVars, scanVars, watchVars, snapshotVars>>

\* execute_single_action, 'skip': the path is logged
ExecSkip(c) ==
    /\ AtAction(c, "skip")
    /\ Succeed(c)
    /\ UNCHANGED <<pc, local_files, remote_files, actions>>
    /\ UNCHANGED <<is_syncing, last_call, passes>>
    /\ UNCHANGED <<clientVars, conflict_resolution, plannerVars, scanVars, watchVars, envVars, snapshotVars>>

\* delete_local_file
ExecDeleteLocal(c) ==
    /\ AtAction(c, "delete_local")
    /\ local_fs' = [local_fs EXCEPT ![Cur(c).path] = None]
    /\ Succeed(c)
    /\ UNCHANGED <<pc, local_files, remote_files, actions>>
    /\ UNCHANGED <<is_syncing, last_call, passes>>
    /\ UNCHANGED <<now, remote_fs, conflict_copies, disturbances>>
    /\ UNCHANGED <<clientVars, conflict_resolution, plannerVars, scanVars, watchVars, snapshotVars>>

\* upload_file up to the write_file request: the local file is read
ExecUploadBegin(c) ==
    /\ AtAction(c, "upload")
    /\ IF IsSome(local_fs[Cur(c).path])
       THEN Await(c, Request("write_file", Cur(c).path,
                             Val(local_fs[Cur(c).path]).content))
       ELSE Fail(c)
    /\ UNCHANGED <<pc, local_files, remote_files, actions>>
    /\ UNCHANGED <<is_syncing, last_call, passes>>
    /\ UNCHANGED <<clientVars, conflict_resolution, plannerVars, scanVars, watchVars, envVars, snapshotVars>>

\* download_file up to the read_file request
ExecDownloadBegin(c) ==
    /\ AtAction(c, "download")
    /\ Await(c, Request("read_file", Cur(c).path, ""))
    /\ UNCHANGED <<pc, local_files, remote_files, actions>>
    /\ UNCHANGED <<is_syncing, last_call, passes>>
    /\ UNCHANGED <<clientVars, conflict_resolution, plannerVars, scanVars, watchVars, envVars, snapshotVars>>

\* mutant: the aside copy left out
aside_copy_skipped(path) == conflict_copies

\* create_conflict_copy: the local file, when it exists, is copied aside
aside_copy(path) ==
    IF IsSome(local_fs[path])
    THEN conflict_copies \cup {<<path, Val(local_fs[path]).content>>}
    ELSE conflict_copies

\* create_conflict_copy up to the read_file request of its download_file; the
\* copy may raise, and then nothing is downloaded
ExecKeepBothBegin(c) ==
    /\ AtAction(c, "keep_both")
    /\ \E copied \in BOOLEAN :
          IF copied
          THEN /\ conflict_copies' = aside_copy(Cur(c).path)
               /\ Await(c, Request("read_file", Cur(c).path, ""))
               /\ NoFault
          ELSE /\ IsSome(local_fs[Cur(c).path])
               /\ UNCHANGED conflict_copies
               /\ Fail(c)
               /\ Fault
    /\ UNCHANGED <<pc, local_files, remote_files, actions>>
    /\ UNCHANGED <<is_syncing, last_call, passes>>
    /\ UNCHANGED <<now, local_fs, remote_fs>>
    /\ UNCHANGED <<clientVars, conflict_resolution, plannerVars, scanVars, watchVars, snapshotVars>>

\* delete_remote_file up to the delete_file request
ExecDeleteRemoteBegin(c) ==
    /\ AtAction(c, "delete_remote")
    /\ Await(c, Request("delete_file", Cur(c).path, ""))
    /\ UNCHANGED <<pc, local_files, remote_files, actions>>
    /\ UNCHANGED <<is_syncing, last_call, passes>>
    /\ UNCHANGED <<clientVars, conflict_resolution, plannerVars, scanVars, watchVars, envVars, snapshotVars>>

Awaiting(c, op) ==
    /\ pc[c] = "execute"
    /\ IsSome(inflight[c])
    /\ Val(inflight[c]).op = op

\* the server's answer to a tool call: it succeeded, it was refused (an error
\* response or isError), or it was carried out and the reply never arrived
ToolOutcomes == {"ok", "error", "lost_reply"}

\* upload_file from the response of write_file on
ExecUploadEnd(c) ==
    /\ Awaiting(c, "write_file")
    /\ \E outcome \in ToolOutcomes :
          /\ remote_fs' = IF outcome = "error"
                          THEN remote_fs
                          ELSE [remote_fs EXCEPT ![Val(inflight[c]).path] =
                                   Some(File(Val(inflight[c]).content, now))]
          /\ now' = IF outcome = "error" THEN now ELSE now + 1
          /\ IF outcome = "ok" THEN Succeed(c) /\ NoFault ELSE Fail(c) /\ Fault
    /\ UNCHANGED <<pc, local_files, remote_files, actions>>
    /\ UNCHANGED <<is_syncing, last_call, passes>>
    /\ UNCHANGED <<local_fs, conflict_copies>>
    /\ UNCHANGED <<clientVars, conflict_resolution, plannerVars, scanVars, watchVars, snapshotVars>>

\* download_file from the response of read_file on: the content read is
\* written over the local file; a missing remote file or an error raises
ExecDownloadEnd(c) ==
    /\ Awaiting(c, "read_file")
    /\ \E ok \in BOOLEAN :
          IF ok
          THEN /\ IsSome(remote_fs[Val(inflight[c]).path])
               /\ local_fs' = [local_fs EXCEPT ![Val(inflight[c]).path] =
                      Some(File(Val(remote_fs[Val(inflight[c]).path]).content, now))]
               /\ now' = now + 1
               /\ Succeed(c)
               /\ NoFault
          ELSE /\ UNCHANGED <<local_fs, now>>
               /\ Fail(c)
               /\ IF IsSome(remote_fs[Val(inflight[c]).path]) THEN Fault ELSE NoFault
    /\ UNCHANGED <<pc, local_files, remote_files, actions>>
    /\ UNCHANGED <<is_syncing, last_call, passes>>
    /\ UNCHANGED <<remote_fs, conflict_copies>>
    /\ UNCHANGED <<clientVars, conflict_resolution, plannerVars, scanVars, watchVars, snapshotVars>>

\* delete_remote_file from the response of delete_file on
ExecDeleteRemoteEnd(c) ==
    /\ Awaiting(c, "delete_file")
    /\ \E outcome \in ToolOutcomes :
          /\ remote_fs' = IF outcome = "error"
                          THEN remote_fs
                          ELSE [remote_fs EXCEPT ![Val(inflight[c]).path] = None]
          /\ IF outcome = "ok" THEN Succeed(c) /\ NoFault ELSE Fail(c) /\ Fault
    /\ UNCHANGED <<pc, local_files, remote_files, actions>>
    /\ UNCHANGED <<is_syncing, last_call, passes>>
    /\ UNCHANGED <<now, local_fs, conflict_copies>>
    /\ UNCHANGED <<clientVars, conflict_resolution, plannerVars, scanVars, watchVars, snapshotVars>>

\* ------------------------------------------ the sync manager: persistence
\* mutant: the snapshot updated as soon as the plan exists
ExecutionComplete_early(c) == TRUE

\* execute_sync_actions has returned: its loop went through every action
ExecutionComplete(c) ==
    idx[c] = Len(actions[c]) /\ inflight[c] = NoRequest

\* dict.update: the entry of a path that the local scan holds is replaced by
\* the scanned metadata, every other entry stays
updated_entry(local_meta, stored_meta) ==
    IF IsSome(local_meta) THEN local_meta ELSE stored_meta

\* sync_files: self.file_metadata.update(local_files)
UpdateMetadata(c) ==
    /\ pc[c] = "execute"
    /\ ExecutionComplete(c)
    /\ file_metadata' = [p \in Paths |->
          updated_entry(local_files[c][p], file_metadata[p])]
    /\ pc' = [pc EXCEPT ![c] = "save_open"]
    /\ UNCHANGED <<local_files, remote_files, actions, idx, inflight>>
    /\ UNCHANGED <<clientVars, conflict_resolution, plannerVars, scanVars, watchVars, envVars, metadata_file, managerVars>>

\* save_metadata: the file is opened for writing, which empties it
SaveOpen(c) ==
    /\ pc[c] = "save_open"
    /\ \E ok \in BOOLEAN :
          IF ok
          THEN /\ metadata_file' = <<"partial">>
               /\ pc' = [pc EXCEPT ![c] = "save_write"]
               /\ NoFault
          ELSE /\ UNCHANGED metadata_file
               /\ pc' = [pc EXCEPT ![c] = "finish"]
               /\ Fault
    /\ UNCHANGED <<local_files, remote_files, actions, idx, inflight>>
    /\ UNCHANGED <<now, local_fs, remote_fs, conflict_copies>>
    /\ UNCHANGED <<clientVars, conflict_resolution, plannerVars, scanVars, watchVars, file_metadata, managerVars>>

\* save_metadata: the document is written; a failure is logged and swallowed
SaveWrite(c) ==
    /\ pc[c] = "save_write"
    /\ \E ok \in BOOLEAN :
          IF ok
          THEN metadata_file' = SnapshotDocument(file_metadata, stats) /\ NoFault
          ELSE UNCHANGED metadata_file /\ Fault
    /\ pc' = [pc EXCEPT ![c] = "finish"]
    /\ UNCHANGED <<local_files, remote_files, actions, idx, inflight>>
    /\ UNCHANGED <<now, local_fs, remote_fs, conflict_copies>>
    /\ UNCHANGED <<clientVars, conflict_resolution, plannerVars, scanVars, watchVars, file_metadata, managerVars>>

\* mutant: the pass returns without clearing the guard
FinishPass_keeps_guard(c) ==
    /\ pc[c] = "finish"
    /\ stats' = [stats EXCEPT !.last_sync = Some(now)]
    /\ ResetFrame(c)
    /\ UNCHANGED <<is_syncing, last_call, passes>>
    /\ UNCHANGED <<clientVars, conflict_resolution, plannerVars, scanVars, watchVars, envVars, snapshotVars>>

\* sync_files: last_sync is set and the finally clause clears the guard
FinishPass(c) ==
    /\ pc[c] = "finish"
    /\ stats' = [stats EXCEPT !.last_sync = Some(now)]
    /\ is_syncing' = FALSE
    /\ ResetFrame(c)
    /\ UNCHANGED <<last_call, passes>>
    /\ UNCHANGED <<clientVars, conflict_resolution, plannerVars, scanVars, watchVars, envVars, snapshotVars>>

\* ------------------------------------------------------- the environment
\* the user saves a file in local_dir
UserWrite(p, content) ==
    /\ Disturbance
    /\ local_fs' = [local_fs EXCEPT ![p] = Some(File(content, now))]
    /\ now' = now + 1
    /\ UNCHANGED <<remote_fs, conflict_copies>>
    /\ UNCHANGED <<clientVars, conflict_resolution, plannerVars, scanVars, watchVars, snapshotVars,
                   frameVars, managerVars>>

\* the user removes a file of local_dir
UserDelete(p) ==
    /\ Disturbance
    /\ IsSome(local_fs[p])
    /\ local_fs' = [local_fs EXCEPT ![p] = None]
    /\ UNCHANGED <<now, remote_fs, conflict_copies>>
    /\ UNCHANGED <<clientVars, conflict_resolution, plannerVars, scanVars, watchVars, snapshotVars,
                   frameVars, managerVars>>

\* another client writes a file of the workspace
RemoteWrite(p, content) ==
    /\ Disturbance
    /\ remote_fs' = [remote_fs EXCEPT ![p] = Some(File(content, now))]
    /\ now' = now + 1
    /\ UNCHANGED <<local_fs, conflict_copies>>
    /\ UNCHANGED <<clientVars, conflict_resolution, plannerVars, scanVars, watchVars, snapshotVars,
                   frameVars, managerVars>>

\* another client removes a file of the workspace
RemoteDelete(p) ==
    /\ Disturbance
    /\ IsSome(remote_fs[p])
    /\ remote_fs' = [remote_fs EXCEPT ![p] = None]
    /\ UNCHANGED <<now, local_fs, conflict_copies>>
    /\ UNCHANGED <<clientVars, conflict_resolution, plannerVars, scanVars, watchVars, snapshotVars,
                   frameVars, managerVars>>

\* what users write while the engine runs differs from what was there at startup
Environment ==
    \/ \E p \in EditedPaths : UserWrite(p, "c2")
    \/ \E p \in EditedPaths : UserDelete(p)
    \/ \E p \in EditedPaths : RemoteWrite(p, "c2")
    \/ \E p \in EditedPaths : RemoteDelete(p)

\* the steps of one call of sync_files that found is_syncing false
FullPass(c) ==
    \/ SyncFilesStart(c)
    \/ ScanLocal(c)
    \/ ScanLocalFails(c)
    \/ ScanRemote(c)
    \/ ScanRemoteFails(c)
    \/ Plan(c)
    \/ ExecSkip(c)
    \/ ExecDeleteLocal(c)
    \/ ExecUploadBegin(c)
    \/ ExecUploadEnd(c)
    \/ ExecDownloadBegin(c)
    \/ ExecDownloadEnd(c)
    \/ ExecKeepBothBegin(c)
    \/ ExecDeleteRemoteBegin(c)
    \/ ExecDeleteRemoteEnd(c)
    \/ UpdateMetadata(c)
    \/ SaveOpen(c)
    \/ SaveWrite(c)
    \/ FinishPass(c)

\* continuous mode: start_periodic_sync is the only caller of sync_files and
\* awaits each pass before it asks for the next, so no call finds a pass running
Next ==
    \/ FullPass("periodic")
    \/ Environment

\* sync_files entered by two tasks at arbitrary times
NextGuard ==
    \/ \E c \in Callers : FullPass(c)
    \/ \E c \in Callers : SyncFilesDropped(c)


Init == SyncInit

Spec == Init /\ [][Next]_vars

SpecGuard == Init /\ [][NextGuard]_vars

\* ------------------------------------ the sync manager: cancellation
\* the positions of sync_files at which it is suspended in an await
AwaitPoints == {"scan_local", "scan_remote", "plan", "execute", "save_open", "save_write"}

\* the task running sync_files is cancelled while it is suspended:
\* CancelledError is no Exception, so the except clause is passed over and
\* the finally clause clears the guard
CancelPass(c) ==
    /\ pc[c] \in AwaitPoints
    /\ Disturbance
    /\ is_syncing' = FALSE
    /\ last_call' = [last_call EXCEPT ![c] = "cancelled"]
    /\ ResetFrame(c)
    /\ UNCHANGED <<stats, passes>>
    /\ UNCHANGED <<now, local_fs, remote_fs, conflict_copies>>
    /\ UNCHANGED <<clientVars, conflict_resolution, plannerVars, scanVars, watchVars, snapshotVars>>

\* passes that may be cancelled; a pass that is not cancelled keeps running:
\* every await of sync_files ends, a request after 30 seconds at the latest
NextLifecycle ==
    \/ FullPass("periodic")
    \/ CancelPass("periodic")

\* the policies under which a plan can hold every kind of action
LifecycleInit == SyncInit /\ conflict_resolution \in {"ask", "keep_both"}

SpecLifecycle ==
    LifecycleInit /\ [][NextLifecycle]_vars /\ WF_vars(FullPass("periodic"))

\* ------------------------------------- the sync manager: incremental path
Task(state, path, kind, wake, req) ==
    [state |-> state, path |-> path, kind |-> kind, wake |-> wake, req |-> req]

\* handle_local_change up to its asyncio.sleep: hidden files are ignored, any
\* other path joins pending_changes
handle_local_change(p, kind) ==
    IF p \in HiddenPaths
    THEN /\ tasks' = Append(tasks, Task("ignored", p, kind, now, None))
         /\ UNCHANGED pending_changes
    ELSE /\ pending_changes' = pending_changes \cup {p}
         /\ tasks' = Append(tasks, Task("sleeping", p, kind,
                                        now + DebounceDelay, None))

\* the user saves a file of local_dir: LocalFileWatcher.on_created or
\* on_modified starts a handle_local_change task
LocalSave(p) ==
    /\ Len(tasks) < MaxNotify
    /\ local_fs' = [local_fs EXCEPT ![p] = Some(File("c2", now))]
    /\ now' = now + 1
    /\ handle_local_change(p, IF IsSome(local_fs[p]) THEN "modified" ELSE "created")
    /\ UNCHANGED <<remote_fs, conflict_copies, disturbances>>
    /\ UNCHANGED <<clientVars, conflict_resolution, plannerVars, scanVars, snapshotVars, frameVars,
                   managerVars>>

\* the user removes a file of local_dir: LocalFileWatcher.on_deleted
LocalRemove(p) ==
    /\ Len(tasks) < MaxNotify
    /\ IsSome(local_fs[p])
    /\ local_fs' = [local_fs EXCEPT ![p] = None]
    /\ handle_local_change(p, "deleted")
    /\ UNCHANGED <<now, remote_fs, conflict_copies, disturbances>>
    /\ UNCHANGED <<clientVars, conflict_resolution, plannerVars, scanVars, snapshotVars, frameVars,
                   managerVars>>

\* the snapshot file changes: LocalFileWatcher.on_modified
HiddenChange(p) ==
    /\ Len(tasks) < MaxNotify
    /\ handle_local_change(p, "modified")
    /\ UNCHANGED <<clientVars, conflict_resolution, plannerVars, scanVars, envVars, snapshotVars,
                   frameVars, managerVars>>

\* the event loop resumes sleeping tasks in the order of their deadlines
NextToWake(i) ==
    /\ tasks[i].state = "sleeping"
    /\ now >= tasks[i].wake
    /\ \A j \in DOMAIN tasks :
          (tasks[j].state = "sleeping" /\ j # i) =>
              (tasks[i].wake < tasks[j].wake \/ (tasks[i].wake = tasks[j].wake /\ i < j))

\* mutant: the request chosen by the kind of event notified for the path
single_file_request_by_kind(path) ==
    IF \E k \in DOMAIN tasks : tasks[k].path = path /\ tasks[k].kind = "deleted"
    THEN Request("delete_file", path, "")
    ELSE IF IsSome(local_fs[path])
    THEN Request("write_file", path, Val(local_fs[path]).content)
    ELSE Request("delete_file", path, "")

\* sync_single_file up to its request: an existing local file is read and
\* uploaded, a missing one is deleted remotely
single_file_request(path) ==
    IF IsSome(local_fs[path])
    THEN Request("write_file", path, Val(local_fs[path]).content)
    ELSE Request("delete_file", path, "")

\* mutant: the path leaves pending_changes only if the request succeeded
discard_if_ok(path, outcome) ==
    IF outcome = "ok" THEN pending_changes \ {path} ELSE pending_changes

\* handle_local_change: pending_changes.discard, after sync_single_file
\* returned; sync_single_file swallows every failure
discard(path, outcome) == pending_changes \ {path}

\* handle_local_change from the end of its sleep to the request made by
\* sync_single_file
TaskWake(i) ==
    /\ NextToWake(i)
    /\ IF tasks[i].path \in pending_changes
       THEN \E readable \in BOOLEAN :
               IF readable
               THEN /\ tasks' = [tasks EXCEPT
                                    ![i].state = "syncing",
                                    ![i].req = Some(single_file_request(tasks[i].path))]
                    /\ UNCHANGED pending_changes
                    /\ NoFault
               ELSE \* upload_file cannot read the file: sync_single_file logs
                    \* the error and returns, the path is discarded
                    /\ IsSome(local_fs[tasks[i].path])
                    /\ tasks' = [tasks EXCEPT ![i].state = "synced"]
                    /\ pending_changes' = discard(tasks[i].path, "error")
                    /\ Fault
       ELSE /\ tasks' = [tasks EXCEPT ![i].state = "skipped"]
            /\ UNCHANGED pending_changes
            /\ NoFault
    /\ UNCHANGED <<now, local_fs, remote_fs, conflict_copies>>
    /\ UNCHANGED <<clientVars, conflict_resolution, plannerVars, scanVars, snapshotVars,
                   frameVars, managerVars>>

\* sync_single_file from the response on, and the discard that follows it
TaskSyncEnd(i) ==
    /\ i \in DOMAIN tasks
    /\ tasks[i].state = "syncing"
    /\ \E outcome \in ToolOutcomes :
          LET req == Val(tasks[i].req) IN
          /\ remote_fs' =
                IF outcome = "error" THEN remote_fs
                ELSE IF req.op = "write_file"
                THEN [remote_fs EXCEPT ![req.path] = Some(File(req.content, now))]
                ELSE [remote_fs EXCEPT ![req.path] = None]
          /\ now' = IF outcome # "error" /\ req.op = "write_file" THEN now + 1 ELSE now
          /\ IF outcome = "ok" THEN NoFault ELSE Fault
          /\ pending_changes' = discard(req.path, outcome)
    /\ tasks' = [tasks EXCEPT ![i].state = "synced"]
    /\ UNCHANGED <<local_fs, conflict_copies>>
    /\ UNCHANGED <<clientVars, conflict_resolution, plannerVars, scanVars, snapshotVars, frameVars,
                   managerVars>>

\* time passes
Tick ==
    /\ now < MaxTime
    /\ now' = now + 1
    /\ UNCHANGED <<local_fs, remote_fs, conflict_copies, disturbances>>
    /\ UNCHANGED <<clientVars, conflict_resolution, plannerVars, scanVars, snapshotVars, frameVars,
                   managerVars, watchVars>>

\* State after initialize() when the watcher starts: nothing is tracked yet;
\* the paths that are not edited exist on both sides
DebounceInit ==
    /\ conflict_resolution = "ask"
    /\ PlannerIdle
    /\ ScanIdle
    /\ now = 0
    /\ local_fs \in {f \in [Paths -> Opt({File("c1", 0)})] :
                        \A p \in Paths \ EditedPaths : IsSome(f[p])}
    /\ remote_fs \in {f \in [Paths -> Opt({File("c1", 0)})] :
                         \A p \in Paths \ EditedPaths : IsSome(f[p])}
    /\ conflict_copies = {}
    /\ disturbances = 0
    /\ file_metadata = NoFiles
    /\ metadata_file = <<"absent">>
    /\ FrameIdle
    /\ ManagerIdle
    /\ WatchIdle
    /\ ClientIdle

Incremental ==
    \/ \E i \in 1..MaxNotify : i \in DOMAIN tasks /\ TaskWake(i)
    \/ \E i \in 1..MaxNotify : TaskSyncEnd(i)

LocalChanges ==
    \/ \E p \in Paths : LocalSave(p)
    \/ \E p \in Paths : LocalRemove(p)
    \/ \E p \in HiddenPaths : HiddenChange(p)

NextDebounce ==
    \/ Incremental
    \/ LocalChanges
    \/ Tick

SpecDebounce == DebounceInit /\ [][NextDebounce]_vars

\* ------------------------------ the sync manager: continuous mode
\* State after initialize() in continuous mode: an earlier run left the
\* edited path on both sides, with its entry in the snapshot
ContinuousInit ==
    /\ conflict_resolution \in Policies
    /\ PlannerIdle
    /\ ScanIdle
    /\ now = 1
    /\ local_fs = [p \in Paths |-> IF p \in EditedPaths THEN Some(File("c1", 0)) ELSE None]
    /\ remote_fs = local_fs
    /\ conflict_copies = {}
    /\ disturbances = 0
    /\ file_metadata =
          [p \in Paths |-> IF p \in EditedPaths THEN Some(FileMetadata(1, 0, "h1")) ELSE None]
    /\ metadata_file = SnapshotDocument(file_metadata, InitialStats)
    /\ FrameIdle
    /\ ManagerIdle
    /\ WatchIdle
    /\ ClientIdle

\* main(), "--continuous": the watcher's handle_local_change tasks run
\* beside the passes of start_periodic_sync
NextContinuous ==
    \/ FullPass("periodic")
    \/ Incremental
    \/ \E p \in EditedPaths : LocalSave(p)
    \/ \E p \in EditedPaths : LocalRemove(p)
    \/ Tick

SpecContinuous == ContinuousInit /\ [][NextContinuous]_vars

\* ------------------------------------------- the client: send_request
\* send_request: "timeout=30.0"
RequestTimeout == 30

Pending == <<"pending">>
Cancelled == <<"cancelled">>

\* a request as the server receives it
RequestOf(r, id) == [id |-> id, method |-> MethodOf(r)]

\* the codes a server refuses a request with
ErrorCodes == {"method_not_found"}

\* what the server computes for a request, and the error object it refuses
\* the request with
ResultFor(req) == [answers |-> req.id, method |-> req.method]
ErrorFor(req, code) == [code |-> code, message |-> <<"refused", req.method, req.id>>]

\* the two response envelopes: {id, result} and {id, error: {code, message}}
ResultResponse(req) == [id |-> req.id, result |-> ResultFor(req)]
ErrorResponse(req, code) == [id |-> req.id, error |-> ErrorFor(req, code)]

\* a notification envelope: {method, params}, no id
Notification(method) == [method |-> method, params |-> <<"params", method>>]

\* mutant: the id is handed out again
next_message_id_stuck(id) == id

\* send_request: "self.message_id += 1"
next_message_id(id) == id + 1

\* mutant: is_initialized is set however the handshake ended
Resume_initialized_anyway(r, outcome) ==
    /\ is_initialized' = IF r = Connector THEN TRUE ELSE is_initialized
    /\ connected' = IF r = Connector
                    THEN <<"returned", outcome[1] = "result">> ELSE connected
    /\ subscriptions' = IF r \in Subscribers /\ outcome[1] = "result"
                        THEN subscriptions \cup {UriOf(r)} ELSE subscriptions

\* the caller of send_request runs on from the call without suspending:
\* initialize sets is_initialized and connect returns True, or connect's
\* except clause returns False; subscribe_to_changes adds its uri to
\* subscriptions, or the exception leaves it as it is
Resume(r, outcome) ==
    /\ is_initialized' = IF r = Connector /\ outcome[1] = "result"
                         THEN TRUE ELSE is_initialized
    /\ connected' = IF r = Connector
                    THEN <<"returned", outcome[1] = "result">> ELSE connected
    /\ subscriptions' = IF r \in Subscribers /\ outcome[1] = "result"
                        THEN subscriptions \cup {UriOf(r)} ELSE subscriptions

\* the requester is inside send_request
InCall(r) == calls[r].pc \in {"sending", "waiting", "cancelling"}

\* send_request up to "await self.ws.send": the id is taken, the future is
\* made and registered, and the message is handed to the socket. A closed
\* socket object still passes the "if not self.ws" test.
SendRequestBegin(r) ==
    /\ ~InCall(r)
    /\ ws # "none"
    /\ message_id \in RequestIds
    /\ message_id' = next_message_id(message_id)
    /\ futures' = [futures EXCEPT ![message_id] = Pending]
    /\ pending_requests' = pending_requests \cup {message_id}
    /\ issued' = Append(issued, message_id)
    /\ calls' = [calls EXCEPT ![r] =
                    [pc |-> "sending", id |-> message_id, deadline |-> 0,
                     outcome |-> None]]
    /\ server_rx' = IF ws = "open"
                    THEN server_rx \cup {RequestOf(r, message_id)}
                    ELSE server_rx
    /\ UNCHANGED <<ws, inbox, reader>>
    /\ UNCHANGED <<conflict_resolution, plannerVars, scanVars, envVars, snapshotVars,
                   frameVars, managerVars, watchVars, notifyVars, sessionVars>>

\* "await self.ws.send" returned: asyncio.wait_for starts its timer
SendDone(r) ==
    /\ calls[r].pc = "sending"
    /\ ws = "open"
    /\ calls' = [calls EXCEPT ![r].pc = "waiting",
                              ![r].deadline = now + RequestTimeout]
    /\ UNCHANGED <<ws, message_id, pending_requests, futures, issued, server_rx,
                   inbox, reader>>
    /\ UNCHANGED <<conflict_resolution, plannerVars, scanVars, envVars, snapshotVars,
                   frameVars, managerVars, watchVars, notifyVars, sessionVars>>

\* "await self.ws.send" raised ConnectionClosed: send_request has no handler
\* for it, the exception reaches the caller
SendFails(r) ==
    /\ calls[r].pc = "sending"
    /\ ws = "closed"
    /\ calls' = [calls EXCEPT ![r].pc = "raised", ![r].outcome = <<"send_failed">>]
    /\ Resume(r, <<"send_failed">>)
    /\ UNCHANGED <<ws, message_id, pending_requests, futures, issued, server_rx,
                   inbox, reader>>
    /\ UNCHANGED <<conflict_resolution, plannerVars, scanVars, envVars, snapshotVars,
                   frameVars, managerVars, watchVars, notifyVars>>

\* the future of the call was settled by the reader: wait_for returns its
\* result or raises its exception
CallReturn(r) ==
    /\ calls[r].pc = "waiting"
    /\ futures[calls[r].id][1] \in {"result", "exception"}
    /\ calls' = [calls EXCEPT
                    ![r].pc = IF futures[calls[r].id][1] = "result"
                              THEN "returned" ELSE "raised",
                    ![r].outcome = IF futures[calls[r].id][1] = "result"
                                   THEN futures[calls[r].id]
                                   ELSE <<"remote_error", futures[calls[r].id][2]>>]
    /\ Resume(r, futures[calls[r].id])
    /\ UNCHANGED <<ws, message_id, pending_requests, futures, issued, server_rx,
                   inbox, reader>>
    /\ UNCHANGED <<conflict_resolution, plannerVars, scanVars, envVars, snapshotVars,
                   frameVars, managerVars, watchVars, notifyVars>>

\* the timer of asyncio.wait_for fires: the future is cancelled at once, the
\* caller is resumed with the timeout by a later step of the event loop
TimeoutFires(r) ==
    /\ calls[r].pc = "waiting"
    /\ futures[calls[r].id] = Pending
    /\ now >= calls[r].deadline
    /\ futures' = [futures EXCEPT ![calls[r].id] = Cancelled]
    /\ calls' = [calls EXCEPT ![r].pc = "cancelling"]
    /\ UNCHANGED <<ws, message_id, pending_requests, issued, server_rx, inbox, reader>>
    /\ UNCHANGED <<conflict_resolution, plannerVars, scanVars, envVars, snapshotVars,
                   frameVars, managerVars, watchVars, notifyVars, sessionVars>>

\* mutant: the waiter is left in the table
evict_nothing(id) == pending_requests

\* send_request: "self.pending_requests.pop(message_id, None)"
evict(id) == pending_requests \ {id}

\* send_request, "except asyncio.TimeoutError": the waiter is removed and
\* TimeoutError is raised
TimeoutCleanup(r) ==
    /\ calls[r].pc = "cancelling"
    /\ pending_requests' = evict(calls[r].id)
    /\ calls' = [calls EXCEPT ![r].pc = "raised", ![r].outcome = <<"timeout">>]
    /\ Resume(r, <<"timeout">>)
    /\ UNCHANGED <<ws, message_id, futures, issued, server_rx, inbox, reader>>
    /\ UNCHANGED <<conflict_resolution, plannerVars, scanVars, envVars, snapshotVars,
                   frameVars, managerVars, watchVars, notifyVars>>

\* ------------------------------------------ the client: _handle_messages
\* mutant: a response settles the oldest waiter
waiter_for_oldest(message) ==
    IF pending_requests = {} THEN message.id
    ELSE CHOOSE i \in pending_requests : \A j \in pending_requests : i <= j

\* _handle_messages: "message_id = data['id']"
waiter_for(message) == message.id

\* mutant: the code of the error object is left out of the exception
mcp_error_without_code(error) == <<"MCP Error", "", error.message>>

\* _handle_messages: Exception(f"MCP Error {error['code']}: {error['message']}")
mcp_error(error) == <<"MCP Error", error.code, error.message>>

\* Future.set_exception and Future.set_result on the future popped for a
\* response
Settled(message) ==
    IF "error" \in DOMAIN message
    THEN <<"exception", mcp_error(message.error)>>
    ELSE <<"result", message.result>>

\* _handle_notification: "self.event_handlers.get(method, [])"
handlers_of(method) ==
    IF method \in DOMAIN event_handlers THEN event_handlers[method] ELSE <<>>

\* mutant: the loop over the handlers ends at the first one that raises
dispatch_until_failure(method, params, failing) ==
    LET handlers == handlers_of(method)
        upto == IF \E i \in DOMAIN handlers : handlers[i] \in failing
                THEN CHOOSE i \in DOMAIN handlers :
                        /\ handlers[i] \in failing
                        /\ \A j \in 1..(i - 1) : handlers[j] \notin failing
                ELSE Len(handlers)
    IN  [i \in 1..upto |->
            [method |-> method, handler |-> handlers[i], params |-> params,
             raised |-> handlers[i] \in failing]]

\* _handle_notification: every handler registered for the method is awaited
\* with the params, in the order of the list; one that raises is logged and
\* the loop goes on
dispatch(method, params, failing) ==
    LET handlers == handlers_of(method)
    IN  [i \in 1..Len(handlers) |->
            [method |-> method, handler |-> handlers[i], params |-> params,
             raised |-> handlers[i] \in failing]]

\* the handlers registered for a method
Registered(method) == {handlers_of(method)[i] : i \in DOMAIN handlers_of(method)}

\* _handle_messages, one turn of its loop. On a response the waiter is popped
\* and settled; settling a future that wait_for has cancelled raises
\* InvalidStateError, which leaves the loop through "except Exception". On a
\* notification the handlers registered for its method are awaited one after
\* the other. A message with neither an id nor a method is ignored.
ReaderStep ==
    /\ reader = "running"
    /\ inbox # <<>>
    /\ inbox' = Tail(inbox)
    /\ LET data == Head(inbox) IN
       IF "id" \in DOMAIN data
       THEN /\ LET id == waiter_for(data) IN
               IF id \in pending_requests
               THEN /\ pending_requests' = pending_requests \ {id}
                    /\ IF futures[id] = Pending
                       THEN /\ futures' = [futures EXCEPT ![id] = Settled(data)]
                            /\ UNCHANGED reader
                       ELSE /\ reader' = "crashed"
                            /\ UNCHANGED futures
               ELSE UNCHANGED <<pending_requests, futures, reader>>
            /\ UNCHANGED invocations
            /\ NoFault
       ELSE IF "method" \in DOMAIN data
       THEN /\ \E failing \in SUBSET Registered(data.method) :
                  /\ invocations' = invocations \o
                                       dispatch(data.method, data.params, failing)
                  /\ IF failing = {} THEN NoFault ELSE Fault
            /\ UNCHANGED <<pending_requests, futures, reader>>
       ELSE /\ UNCHANGED <<pending_requests, futures, reader, invocations>>
            /\ NoFault
    /\ UNCHANGED <<ws, message_id, calls, issued, server_rx, event_handlers, sessionVars>>
    /\ UNCHANGED <<now, local_fs, remote_fs, conflict_copies>>
    /\ UNCHANGED <<conflict_resolution, plannerVars, scanVars, snapshotVars,
                   frameVars, managerVars, watchVars>>

\* _handle_messages: the socket is closed and every message was read, the
\* loop ends with ConnectionClosed
ReaderSeesClose ==
    /\ reader = "running"
    /\ ws = "closed"
    /\ inbox = <<>>
    /\ reader' = "closed"
    /\ UNCHANGED <<ws, message_id, pending_requests, futures, calls, issued,
                   server_rx, inbox>>
    /\ UNCHANGED <<conflict_resolution, plannerVars, scanVars, envVars, snapshotVars,
                   frameVars, managerVars, watchVars, notifyVars, sessionVars>>

\* ------------------------------------------------ the client: the server
\* the server answers a request it holds, with a result or an error object;
\* a refused request and a result sent twice are disturbances
ServerResponds(req, is_error, again) ==
    /\ ws = "open"
    /\ req \in server_rx
    /\ Len(inbox) < MaxRequests
    /\ \E code \in ErrorCodes :
          inbox' = Append(inbox, IF is_error THEN ErrorResponse(req, code)
                                 ELSE ResultResponse(req))
    /\ ~(again /\ is_error)
    /\ server_rx' = IF again THEN server_rx ELSE server_rx \ {req}
    /\ IF again \/ is_error THEN Fault ELSE NoFault
    /\ UNCHANGED <<now, local_fs, remote_fs, conflict_copies>>
    /\ UNCHANGED <<ws, message_id, pending_requests, futures, calls, issued, reader>>
    /\ UNCHANGED <<conflict_resolution, plannerVars, scanVars, snapshotVars,
                   frameVars, managerVars, watchVars, notifyVars, sessionVars>>

\* the connection is lost
ConnectionLost ==
    /\ ws = "open"
    /\ Fault
    /\ ws' = "closed"
    /\ UNCHANGED <<now, local_fs, remote_fs, conflict_copies>>
    /\ UNCHANGED <<message_id, pending_requests, futures, calls, issued,
                   server_rx, inbox, reader>>
    /\ UNCHANGED <<conflict_resolution, plannerVars, scanVars, snapshotVars,
                   frameVars, managerVars, watchVars, notifyVars, sessionVars>>

\* the timers of wait_for that have not fired
Deadlines ==
    {calls[r].deadline : r \in {q \in Clients :
        calls[q].pc = "waiting" /\ futures[calls[q].id] = Pending}}

\* time passes up to the next timer; the event loop fires a timer when it
\* is due
ClientTick ==
    /\ \A d \in Deadlines : now < d
    /\ \E d \in Deadlines : (\A e \in Deadlines : d <= e) /\ now' = d
    /\ UNCHANGED <<local_fs, remote_fs, conflict_copies, disturbances>>
    /\ UNCHANGED <<clientVars, conflict_resolution, plannerVars, scanVars, snapshotVars,
                   frameVars, managerVars, watchVars>>

\* State after connect(): the socket is open, _handle_messages runs, and
\* initialize has used id 1
SessionOpen ==
    /\ conflict_resolution = "ask"
    /\ PlannerIdle
    /\ ScanIdle
    /\ now = 0
    /\ local_fs = NoFiles
    /\ remote_fs = NoFiles
    /\ conflict_copies = {}
    /\ disturbances = 0
    /\ file_metadata = NoFiles
    /\ metadata_file = <<"absent">>
    /\ FrameIdle
    /\ ManagerIdle
    /\ WatchIdle
    /\ ws = "open"
    /\ message_id = 2
    /\ pending_requests = {}
    /\ futures = [i \in RequestIds |->
                    IF i = 1 THEN <<"result", ResultFor(RequestOf(Connector, 1))>>
                    ELSE <<"none">>]
    /\ calls = [r \in Clients |-> NoCall]
    /\ issued = <<>>
    /\ server_rx = {}
    /\ reader = "running"
    /\ is_initialized = TRUE
    /\ connected = <<"returned", TRUE>>
    /\ subscriptions = {}
    /\ event_handlers = <<>>
    /\ invocations = <<>>

\* nothing has arrived on the socket yet
ClientInit == SessionOpen /\ inbox = <<>>

NextClient ==
    \/ \E r \in Requesters : SendRequestBegin(r)
    \/ \E r \in Requesters : SendDone(r)
    \/ \E r \in Requesters : SendFails(r)
    \/ \E r \in Requesters : CallReturn(r)
    \/ \E r \in Requesters : TimeoutFires(r)
    \/ \E r \in Requesters : TimeoutCleanup(r)
    \/ ReaderStep
    \/ ReaderSeesClose
    \/ \E req \in server_rx, is_error, again \in BOOLEAN : ServerResponds(req, is_error, again)
    \/ ConnectionLost
    \/ ClientTick

SpecClient == ClientInit /\ [][NextClient]_vars

\* --------------------------------------------------- the client: connect
\* connect() up to the end of "await websockets.connect": the socket is
\* open and the _handle_messages task is created
ConnectOpens ==
    /\ ws = "none"
    /\ connected = None
    /\ ws' = "open"
    /\ reader' = "running"
    /\ UNCHANGED <<message_id, pending_requests, futures, calls, issued,
                   server_rx, inbox, sessionVars, notifyVars>>
    /\ UNCHANGED <<conflict_resolution, plannerVars, scanVars, envVars, snapshotVars,
                   frameVars, managerVars, watchVars>>

\* websockets.connect raises: connect's except clause logs it and returns
\* False; ws stays None
ConnectRefused ==
    /\ ws = "none"
    /\ connected = None
    /\ Fault
    /\ connected' = <<"returned", FALSE>>
    /\ UNCHANGED <<is_initialized, subscriptions>>
    /\ UNCHANGED <<now, local_fs, remote_fs, conflict_copies>>
    /\ UNCHANGED <<ws, message_id, pending_requests, futures, calls, issued,
                   server_rx, inbox, reader, notifyVars>>
    /\ UNCHANGED <<conflict_resolution, plannerVars, scanVars, snapshotVars,
                   frameVars, managerVars, watchVars>>

\* connect() runs on into initialize(), which calls send_request
Initialize ==
    /\ connected = None
    /\ calls[Connector] = NoCall
    /\ SendRequestBegin(Connector)

\* the application goes on to make requests only when connect returned True
RequestAfterConnect(r) ==
    /\ connected = <<"returned", TRUE>>
    /\ SendRequestBegin(r)

\* State after MCPFileSyncClient.__init__
ConnectInit ==
    /\ conflict_resolution = "ask"
    /\ PlannerIdle
    /\ ScanIdle
    /\ SyncIdle

NextConnect ==
    \/ ConnectOpens
    \/ ConnectRefused
    \/ Initialize
    \/ RequestAfterConnect("full_pass")
    \/ \E r \in {Connector, "full_pass"} : SendDone(r)
    \/ \E r \in {Connector, "full_pass"} : SendFails(r)
    \/ \E r \in {Connector, "full_pass"} : CallReturn(r)
    \/ \E r \in {Connector, "full_pass"} : TimeoutFires(r)
    \/ \E r \in {Connector, "full_pass"} : TimeoutCleanup(r)
    \/ ReaderStep
    \/ ReaderSeesClose
    \/ \E req \in server_rx, is_error, again \in BOOLEAN : ServerResponds(req, is_error, again)
    \/ ConnectionLost
    \/ ClientTick

SpecConnect == ConnectInit /\ [][NextConnect]_vars

\* --------------------------------------------- the client: subscriptions
\* mutant: the registry is not consulted
already_subscribed_never(uri) == FALSE

\* subscribe_to_changes: "if uri not in self.subscriptions", negated
already_subscribed(uri) == uri \in subscriptions

\* subscribe_to_changes for a uri that is not in subscriptions: it runs on
\* into send_request, up to "await self.ws.send"
SubscribeSends(t) ==
    /\ ~already_subscribed(UriOf(t))
    /\ SendRequestBegin(t)

\* subscribe_to_changes for a uri that is in subscriptions: it returns
SubscribeNoop(t) ==
    /\ ~InCall(t)
    /\ already_subscribed(UriOf(t))
    /\ calls' = [calls EXCEPT ![t] = [pc |-> "returned", id |-> 0, deadline |-> 0,
                                     outcome |-> <<"already_subscribed">>]]
    /\ UNCHANGED <<ws, message_id, pending_requests, futures, issued, server_rx,
                   inbox, reader, sessionVars, notifyVars>>
    /\ UNCHANGED <<conflict_resolution, plannerVars, scanVars, envVars, snapshotVars,
                   frameVars, managerVars, watchVars>>

\* two tasks subscribe, each as often as it likes, to the same uri
NextSubscribe ==
    \/ \E t \in Subscribers : SubscribeSends(t)
    \/ \E t \in Subscribers : SubscribeNoop(t)
    \/ \E t \in Subscribers : SendDone(t)
    \/ \E t \in Subscribers : CallReturn(t)
    \/ \E t \in Subscribers : TimeoutFires(t)
    \/ \E t \in Subscribers : TimeoutCleanup(t)
    \/ ReaderStep
    \/ \E req \in server_rx, is_error, again \in BOOLEAN : ServerResponds(req, is_error, again)
    \/ ClientTick

SpecSubscribe == ClientInit /\ [][NextSubscribe]_vars

\* ------------------------------------------- the client: notifications
\* the handlers registered so far, over all events
Registrations ==
    LET RECURSIVE Total(_)
        Total(S) == IF S = {} THEN 0
                    ELSE LET m == CHOOSE x \in S : TRUE
                         IN  Len(event_handlers[m]) + Total(S \ {m})
    IN  Total(DOMAIN event_handlers)

\* on(): the handler is appended to the list of the event, which is created
\* when the event has none
On(event, handler) ==
    /\ Registrations < MaxHandlers
    /\ event_handlers' =
          IF event \in DOMAIN event_handlers
          THEN [event_handlers EXCEPT ![event] = Append(@, handler)]
          ELSE event_handlers @@ (event :> <<handler>>)
    /\ UNCHANGED <<ws, message_id, pending_requests, futures, calls, issued,
                   server_rx, inbox, reader, sessionVars, invocations>>
    /\ UNCHANGED <<conflict_resolution, plannerVars, scanVars, envVars, snapshotVars,
                   frameVars, managerVars, watchVars>>

\* the methods a server pushes: the handled ones and one nobody handles
PushedMethods == NotificationMethods \cup {"notifications/prompts/list_changed"}

\* the notifications that may wait on the socket
NotificationQueues ==
    UNION {[1..n -> {Notification(m) : m \in PushedMethods}] : n \in 0..MaxPushes}

\* State after connect(), with notifications already received
NotifyInit == SessionOpen /\ inbox \in NotificationQueues

NextNotify ==
    \/ \E event \in NotificationMethods, handler \in Handlers : On(event, handler)
    \/ ReaderStep

SpecNotify == NotifyInit /\ [][NextNotify]_vars

\* ------------------------------------- remove_logs.py: find_balanced_end
\* A text is a sequence of characters, indexed from 0 as in Python.
CharAt(k) == scan_content[k + 1]
length == Len(scan_content)

\* the backtick character, which cannot be written in a string here
Backtick == "BACKTICK"

\* the pieces scanned texts are made of: parentheses, the three quotes, the
\* backslash, the comment delimiters, the newline and an ordinary character
Pieces ==
    {<<"(">>, <<")">>, <<"'">>, <<"\"">>, <<Backtick>>, <<"\\">>, <<"\n">>, <<"x">>,
     <<"/", "/">>, <<"/", "*">>, <<"*", "/">>}

\* what may follow the opening parenthesis: up to n pieces
RECURSIVE Bodies(_)
Bodies(n) ==
    IF n = 0 THEN {<<>>}
    ELSE Bodies(n - 1) \cup {b \o q : b \in Bodies(n - 1), q \in Pieces}

\* what may precede it
Prefixes == {<<>>, <<"x">>}

\* "i+1 < length and content[i+1]": the character after the current one
Lookahead == IF scan_i + 1 < length THEN Some(CharAt(scan_i + 1)) ELSE None

\* the state after the current character
state_after(state, char, lookahead) ==
    IF state = "CODE"
    THEN IF char = "'" THEN "STRING_SINGLE"
         ELSE IF char = "\"" THEN "STRING_DOUBLE"
         ELSE IF char = Backtick THEN "STRING_BACKTICK"
         ELSE IF char = "/" /\ IsSome(lookahead)
              THEN IF lookahead = Some("/") THEN "COMMENT_LINE"
                   ELSE IF lookahead = Some("*") THEN "COMMENT_BLOCK"
                   ELSE "CODE"
         ELSE "CODE"
    ELSE IF state = "STRING_SINGLE"
    THEN IF char = "\\" THEN state ELSE IF char = "'" THEN "CODE" ELSE state
    ELSE IF state = "STRING_DOUBLE"
    THEN IF char = "\\" THEN state ELSE IF char = "\"" THEN "CODE" ELSE state
    ELSE IF state = "STRING_BACKTICK"
    THEN IF char = "\\" THEN state ELSE IF char = Backtick THEN "CODE" ELSE state
    ELSE IF state = "COMMENT_LINE"
    THEN IF char = "\n" THEN "CODE" ELSE state
    ELSE IF char = "*" /\ lookahead = Some("/") THEN "CODE" ELSE state

\* the characters the iteration consumes besides the current one: the second
\* character of a comment delimiter, the character after a backslash
extra_skip(state, char, lookahead) ==
    IF state = "CODE"
    THEN IF char = "/" /\ lookahead \in {Some("/"), Some("*")} THEN 1 ELSE 0
    ELSE IF state \in {"STRING_SINGLE", "STRING_DOUBLE", "STRING_BACKTICK"}
    THEN IF char = "\\" THEN 1 ELSE 0
    ELSE IF state = "COMMENT_BLOCK"
    THEN IF char = "*" /\ lookahead = Some("/") THEN 1 ELSE 0
    ELSE 0

\* mutant: parentheses are counted in strings and comments too
depth_after_in_any_state(state, char, d) ==
    IF char = "(" THEN d + 1 ELSE IF char = ")" THEN d - 1 ELSE d

\* "elif char == '(': depth += 1 / elif char == ')': depth -= 1", in CODE only
depth_after(state, char, d) ==
    IF state = "CODE" /\ char = "(" THEN d + 1
    ELSE IF state = "CODE" /\ char = ")" THEN d - 1
    ELSE d

\* "while i < length and depth > 0"
Scanning == scan_result = None /\ scan_i < length /\ depth > 0

\* one iteration of the loop
ScanStep ==
    /\ Scanning
    /\ scan_state' = state_after(scan_state, CharAt(scan_i), Lookahead)
    /\ depth' = depth_after(scan_state, CharAt(scan_i), depth)
    /\ scan_i' = scan_i + extra_skip(scan_state, CharAt(scan_i), Lookahead) + 1
    /\ UNCHANGED <<scan_content, start_index, scan_result>>
    /\ UNCHANGED <<clientVars, conflict_resolution, plannerVars, envVars, snapshotVars,
                   frameVars, managerVars, watchVars>>

\* "return i"
ScanReturn ==
    /\ scan_result = None
    /\ ~Scanning
    /\ scan_result' = Some(scan_i)
    /\ UNCHANGED <<scan_content, start_index, scan_i, depth, scan_state>>
    /\ UNCHANGED <<clientVars, conflict_resolution, plannerVars, envVars, snapshotVars,
                   frameVars, managerVars, watchVars>>

\* find_balanced_end(content, start_index) is called with start_index at an
\* opening parenthesis: i, depth and state are initialised
ScanInit ==
    /\ conflict_resolution = "ask"
    /\ PlannerIdle
    /\ SyncIdle
    /\ \E prefix \in Prefixes, body \in Bodies(MaxPieces) :
          /\ scan_content = prefix \o <<"(">> \o body
          /\ start_index = Len(prefix)
    /\ scan_i = start_index + 1
    /\ depth = 1
    /\ scan_state = "CODE"
    /\ scan_result = None

NextScan ==
    \/ ScanStep
    \/ ScanReturn

SpecScan == ScanInit /\ [][NextScan]_vars


\* ================================================== claims on the planner
Planned == planned[1] = "done"
Result == planned[2]
LocalOnly == IsSome(in_local) /\ ~IsSome(in_remote)
RemoteOnly == ~IsSome(in_local) /\ IsSome(in_remote)
BothSides == IsSome(in_local) /\ IsSome(in_remote)

\* C6: a path present locally and remotely with a stored entry, whose local,
\* remote and stored metadata agree in modification time and content hash,
\* gets no action, under every conflict policy.
Converged ==
    /\ BothSides /\ IsSome(in_stored)
    /\ Val(in_local).mtime = Val(in_stored).mtime
    /\ Val(in_remote).mtime = Val(in_stored).mtime
    /\ Val(in_local).checksum = Val(in_stored).checksum
    /\ Val(in_remote).checksum = Val(in_stored).checksum

C6_ConvergedYieldsNoAction ==
    (Planned /\ Converged) => Result = None

C6_Witness ==
    Planned /\ Converged /\ conflict_resolution = "local_wins" /\ Result = None

\* C8: with no stored entry, a path present on exactly one side is sent to
\* the other side under every policy: local-only is uploaded as
\* new_local_file, remote-only is downloaded as new_remote_file.
C8_NewFilePropagated ==
    (Planned /\ ~IsSome(in_stored)) =>
        /\ LocalOnly => Result = Some(Action("upload", in_path, "new_local_file"))
        /\ RemoteOnly => Result = Some(Action("download", in_path, "new_remote_file"))

C8_Witness ==
    /\ Planned /\ ~IsSome(in_stored) /\ LocalOnly
    /\ conflict_resolution = "remote_wins"
    /\ Result = Some(Action("upload", in_path, "new_local_file"))

\* C9: with a stored entry and both sides present, a change on exactly one
\* side is propagated from that side: upload/local_modified when only the
\* local mtime or hash differs from the stored one, download/remote_modified
\* when only the remote mtime differs.
LocalDiffers ==
    \/ Val(in_local).mtime # Val(in_stored).mtime
    \/ Val(in_local).checksum # Val(in_stored).checksum
RemoteDiffers == Val(in_remote).mtime # Val(in_stored).mtime

C9_OneSidedChangePropagated ==
    (Planned /\ BothSides /\ IsSome(in_stored)) =>
        /\ (LocalDiffers /\ ~RemoteDiffers)
              => Result = Some(Action("upload", in_path, "local_modified"))
        /\ (RemoteDiffers /\ ~LocalDiffers)
              => Result = Some(Action("download", in_path, "remote_modified"))

\* only the local mtime moved (a touch): still an upload
C9_Witness ==
    /\ Planned /\ BothSides /\ IsSome(in_stored)
    /\ Val(in_local).mtime # Val(in_stored).mtime
    /\ Val(in_local).checksum = Val(in_stored).checksum
    /\ ~RemoteDiffers
    /\ Result = Some(Action("upload", in_path, "local_modified"))

\* C10: a path present on both sides with no stored entry is a content
\* conflict, resolved by the configured policy alone: local_wins uploads,
\* remote_wins downloads, keep_both keeps both, ask skips.
ContentConflictResolution(policy, path) ==
    CASE policy = "local_wins" -> Action("upload", path, "conflict_local_wins")
      [] policy = "remote_wins" -> Action("download", path, "conflict_remote_wins")
      [] policy = "keep_both" -> Action("keep_both", path, "conflict_keep_both")
      [] policy = "ask" -> Action("skip", path, "conflict_requires_resolution")

C10_NoAncestorIsContentConflict ==
    (Planned /\ BothSides /\ ~IsSome(in_stored)) =>
        Result = Some(ContentConflictResolution(conflict_resolution, in_path))

C10_Witness ==
    /\ Planned /\ BothSides /\ ~IsSome(in_stored)
    /\ conflict_resolution = "remote_wins"
    /\ Result[1].action = "download"

\* C3: under policy keep_both no data is lost: whenever the planner resolves
\* a conflict (a delete conflict or a content conflict) for a path that has a
\* local file, the planned action does not remove or overwrite the local
\* file unless its content is first copied aside.
DeleteConflict == IsSome(in_stored) /\ (LocalOnly \/ RemoteOnly)
ContentConflict ==
    BothSides /\ (~IsSome(in_stored) \/ (LocalDiffers /\ RemoteDiffers))

C3_KeepBothLosesNoLocalContent ==
    (Planned /\ conflict_resolution = "keep_both" /\ IsSome(in_local)
       /\ (DeleteConflict \/ ContentConflict))
    => /\ IsSome(Result)
       /\ ~replaces_local_without_copy(Val(Result).action)

\* C11: a path present on both sides with a stored entry, changed on both
\* sides relative to that entry, is a content conflict resolved by the policy:
\* local_wins uploads, remote_wins downloads, keep_both keeps both, ask skips.
C11_BothChangedIsContentConflict ==
    (Planned /\ BothSides /\ IsSome(in_stored) /\ LocalDiffers /\ RemoteDiffers) =>
        Result = Some(ContentConflictResolution(conflict_resolution, in_path))

\* the two sides moved, the local one in content as well
C11_Witness ==
    /\ Planned /\ BothSides /\ IsSome(in_stored)
    /\ Val(in_local).checksum # Val(in_stored).checksum
    /\ RemoteDiffers
    /\ conflict_resolution = "keep_both"
    /\ Result = Some(Action("keep_both", in_path, "conflict_keep_both"))

\* C12: a path with a stored entry present on one side only is a delete
\* conflict resolved according to the policy, which decides the side whose
\* state wins: ask skips; under local_wins the local state wins, so a file
\* that exists locally is not deleted locally and a file deleted locally is
\* deleted remotely; under remote_wins the remote state wins, so a file that
\* exists remotely is not deleted remotely and a file deleted remotely is
\* deleted locally.
C12_DeleteConflictResolvedByPolicy ==
    (Planned /\ DeleteConflict) =>
        /\ IsSome(Result)
        /\ conflict_resolution = "ask" => Val(Result).action = "skip"
        /\ (conflict_resolution = "local_wins" /\ LocalOnly)
              => Val(Result).action # "delete_local"
        /\ (conflict_resolution = "local_wins" /\ RemoteOnly)
              => Val(Result).action = "delete_remote"
        /\ (conflict_resolution = "remote_wins" /\ RemoteOnly)
              => Val(Result).action # "delete_remote"
        /\ (conflict_resolution = "remote_wins" /\ LocalOnly)
              => Val(Result).action = "delete_local"

\* C13: under policy ask every conflict, delete conflict or content conflict,
\* yields a skip with a reason; none yields an action that changes a file.
SkipReasons == {"delete_conflict", "conflict_requires_resolution"}

C13_AskAlwaysSkips ==
    (Planned /\ conflict_resolution = "ask" /\ (DeleteConflict \/ ContentConflict)) =>
        /\ IsSome(Result)
        /\ Val(Result).action = "skip"
        /\ Val(Result).path = in_path
        /\ Val(Result).reason \in SkipReasons

\* a delete conflict under ask
C13_Witness ==
    /\ Planned /\ conflict_resolution = "ask" /\ DeleteConflict /\ RemoteOnly
    /\ Result = Some(Action("skip", in_path, "delete_conflict"))

\* C14: the planned action is a function of the policy and of the size, mtime
\* and checksum of the three metadata alone: planning the same inputs again
\* gives the same action, whatever advisory sync_state tag the stored entry
\* carries.
SyncStates == {"unknown", "synced", "local_newer", "remote_newer", "conflict"}

Retagged(stored_meta, tag) ==
    IF IsSome(stored_meta)
    THEN Some([Val(stored_meta) EXCEPT !.sync_state = tag])
    ELSE None

C14_PlannerIgnoresSyncState ==
    Planned =>
        \A tag \in SyncStates :
            determine_sync_action(conflict_resolution, in_path, in_local, in_remote,
                                  Retagged(in_stored, tag)) = Result

\* an entry tagged 'synced' whose remote side moved is still downloaded
C14_Witness ==
    /\ Planned /\ BothSides /\ IsSome(in_stored)
    /\ Val(in_stored).sync_state = "synced"
    /\ RemoteDiffers /\ ~LocalDiffers
    /\ Result = Some(Action("download", in_path, "remote_modified"))

\* C30: under policy ask a path skipped as a content conflict is skipped
\* again by the next full pass when neither side has changed: planned with
\* the same local and remote metadata and the snapshot entry the first pass
\* left, it gets a skip, and no upload, download or delete.
SkippedAsContentConflict ==
    /\ Planned /\ conflict_resolution = "ask" /\ ContentConflict
    /\ Result = Some(Action("skip", in_path, "conflict_requires_resolution"))

PlannedByNextPass ==
    determine_sync_action(conflict_resolution, in_path, in_local, in_remote,
                          updated_entry(in_local, in_stored))

C30_AskConflictStaysSkipped ==
    SkippedAsContentConflict =>
        /\ IsSome(PlannedByNextPass)
        /\ Val(PlannedByNextPass).action = "skip"


\* ============================================ claims on find_balanced_end
\* The lexical structure of a text s from index k on, read in the given mode
\* ("code", "line", "block", or the quote that opened a string): the indices
\* whose characters are code, that is, in no string and in no comment.
RECURSIVE CodePositions(_, _, _)
CodePositions(s, k, mode) ==
    LET ch == s[k + 1]
        pair == IF k + 1 < Len(s) THEN <<s[k + 1], s[k + 2]>> ELSE <<>>
    IN  IF k >= Len(s) THEN {}
        ELSE IF mode = "code"
        THEN IF ch \in {"'", "\"", Backtick} THEN CodePositions(s, k + 1, ch)
             ELSE IF pair = <<"/", "/">> THEN CodePositions(s, k + 2, "line")
             ELSE IF pair = <<"/", "*">> THEN CodePositions(s, k + 2, "block")
             ELSE {k} \cup CodePositions(s, k + 1, "code")
        ELSE IF mode = "line"
        THEN CodePositions(s, k + 1, IF ch = "\n" THEN "code" ELSE "line")
        ELSE IF mode = "block"
        THEN IF pair = <<"*", "/">> THEN CodePositions(s, k + 2, "code")
             ELSE CodePositions(s, k + 1, "block")
        ELSE IF ch = "\\" THEN CodePositions(s, k + 2, mode)
        ELSE IF ch = mode THEN CodePositions(s, k + 1, "code")
        ELSE CodePositions(s, k + 1, mode)

\* the code characters after the opening parenthesis
CodeAfterStart == CodePositions(scan_content, start_index + 1, "code")

\* the parentheses of either kind that are code, strictly between a and b
ParensBetween(ch, a, b) ==
    Cardinality({k \in CodeAfterStart : a < k /\ k < b /\ CharAt(k) = ch})

\* the closing parentheses that balance the one at start_index
BalancingCloses ==
    {j \in CodeAfterStart :
        /\ CharAt(j) = ")"
        /\ ParensBetween("(", start_index, j) = ParensBetween(")", start_index, j)}

\* the one that matches it is the first of them
MatchingClose ==
    CHOOSE j \in BalancingCloses : \A k \in BalancingCloses : j <= k

\* C33: called at an opening parenthesis, find_balanced_end returns the index
\* after the closing parenthesis that matches it, where parentheses in
\* strings and comments do not count; every iteration of its loop moves the
\* index forward and the index never passes the end of the text by more than
\* one, so the scan ends, with or without a matching parenthesis.
ReturnsEndOfMatch ==
    (IsSome(scan_result) /\ BalancingCloses # {})
        => Val(scan_result) = MatchingClose + 1

IndexInRange == start_index < scan_i /\ scan_i <= length + 1

IndexAdvances == scan_result' = scan_result => scan_i' > scan_i

C33_FindBalancedEndMatches ==
    /\ [](ReturnsEndOfMatch /\ IndexInRange)
    /\ [][IndexAdvances]_vars

\* the scan returned the end of a call whose argument holds a parenthesis
\* inside a string or a comment
C33_Witness ==
    /\ IsSome(scan_result)
    /\ BalancingCloses # {}
    /\ Val(scan_result) = MatchingClose + 1
    /\ \E k \in (start_index + 1)..(MatchingClose - 1) :
          CharAt(k) \in {"(", ")"} /\ k \notin CodeAfterStart


\* =========================================== claims on the sync manager
InPass(c) == pc[c] # "idle"

\* C1: at most one full pass is in progress at any time; a call of sync_files
\* made while is_syncing is set returns at once, leaving the locals of the
\* running pass, the snapshot, the files, the statistics and the guard
\* untouched, and it is not queued: a pass only ever starts from a call that
\* found is_syncing clear.
AtMostOnePass ==
    /\ Cardinality({c \in Callers : InPass(c)}) <= 1
    /\ is_syncing <=> (\E c \in Callers : InPass(c))

DroppedCallTouchesNothing ==
    \A c \in Callers :
        /\ (is_syncing /\ last_call'[c] # last_call[c])
              => /\ last_call'[c] = "dropped"
                 /\ UNCHANGED <<frameVars, snapshotVars, envVars, is_syncing, stats>>
        /\ (~InPass(c) /\ InPass(c)')
              => ~is_syncing /\ pc'[c] = "scan_local"

C1_AtMostOneFullPass ==
    []AtMostOnePass /\ [][DroppedCallTouchesNothing]_vars

C1_Witness ==
    \E c, d \in Callers :
        /\ pc[c] = "execute" /\ IsSome(inflight[c])
        /\ last_call[d] = "dropped" /\ pc[d] = "idle"

\* C5: a pass goes through scan local, scan remote, plan, execute, persist in
\* that order, and the snapshot, in memory and on disk, is not changed before
\* every planned action of the pass has been executed, successfully or not.
PassOrder ==
    {<<"idle", "scan_local">>, <<"scan_local", "scan_remote">>,
     <<"scan_local", "idle">>, <<"scan_remote", "plan">>, <<"plan", "execute">>,
     <<"execute", "save_open">>, <<"save_open", "save_write">>,
     <<"save_open", "finish">>, <<"save_write", "finish">>, <<"finish", "idle">>}

AllActionsExecuted(c) == idx[c] = Len(actions[c]) /\ inflight[c] = NoRequest

PassStepsInOrder ==
    \A c \in Callers :
        /\ pc'[c] # pc[c] => <<pc[c], pc'[c]>> \in PassOrder
        /\ local_files'[c] # local_files[c] => pc[c] \in {"scan_local", "finish"}
        /\ remote_files'[c] # remote_files[c] => pc[c] \in {"scan_remote", "finish"}
        /\ actions'[c] # actions[c] => pc[c] \in {"plan", "finish"}
        /\ idx'[c] # idx[c] => pc[c] \in {"execute", "finish"}

SnapshotChangesOnlyAfterExecution ==
    (file_metadata' # file_metadata \/ metadata_file' # metadata_file)
    => \E c \in Callers :
          /\ pc[c] \in {"execute", "save_open", "save_write"}
          /\ AllActionsExecuted(c)

C5_PersistAfterExecute ==
    [][PassStepsInOrder /\ SnapshotChangesOnlyAfterExecution]_vars

\* a pass whose two actions were executed, one of them failing, has saved
C5_Witness ==
    \E c \in Callers :
        /\ pc[c] = "finish"
        /\ Len(actions[c]) = 2 /\ idx[c] = 2
        /\ stats.errors = 1 /\ stats.files_synced = 1
        /\ metadata_file = SnapshotDocument(file_metadata, stats)
        /\ \E p \in Paths :
              IsSome(local_files[c][p]) /\ file_metadata[p] = local_files[c][p]

\* C7: a path absent from the local scan and from the remote scan never appears
\* in the plan of the pass, whether or not the snapshot has an entry for it.
AbsentFromBothScans(c, p) ==
    ~IsSome(local_files[c][p]) /\ ~IsSome(remote_files[c][p])

C7_AbsentPathNeverPlanned ==
    /\ \A c \in Callers : pc[c] \in {"execute", "save_open", "save_write", "finish"} =>
          \A p \in Paths : AbsentFromBothScans(c, p) =>
              \A i \in DOMAIN actions[c] : actions[c][i].path # p
    /\ \A p \in Paths :
          determine_sync_action(conflict_resolution, p, None, None,
                                file_metadata[p]) = None

\* a plan was made while a tracked path was absent from both scans
C7_Witness ==
    \E c \in Callers, p \in Paths :
        /\ pc[c] = "execute" /\ Len(actions[c]) = 1
        /\ AbsentFromBothScans(c, p)
        /\ IsSome(file_metadata[p])

\* C4: executing keep_both never destroys the local content the action found:
\* the local file is copied aside before the request for the remote version
\* is sent, hence before the local file is written; no aside copy is removed
\* while the action waits for the download, so the copy is there after the
\* action whether the download succeeded or failed; and the action never
\* removes the local file.
InKeepBoth(c) ==
    pc[c] = "execute" /\ idx[c] < Len(actions[c]) /\ Cur(c).action = "keep_both"

EngineStep == disturbances' = disturbances \/ local_fs' = local_fs

KeepBothCopiesFirst ==
    \A c \in Callers : InKeepBoth(c) =>
        LET p == Cur(c).path IN
        /\ (inflight[c] = NoRequest /\ IsSome(inflight'[c]) /\ IsSome(local_fs[p]))
              => <<p, Val(local_fs[p]).content>> \in conflict_copies'
        /\ (local_fs'[p] # local_fs[p] /\ EngineStep)
              => /\ Awaiting(c, "read_file")
                 /\ IsSome(local_fs'[p])
        /\ IsSome(inflight[c]) => conflict_copies \subseteq conflict_copies'

C4_KeepBothKeepsLocalBytes == [][KeepBothCopiesFirst]_vars

\* keep_both ended with a failed download: the copy exists, the file is intact
C4_Witness ==
    \E c \in Callers :
        /\ pc[c] = "execute" /\ idx[c] >= 1
        /\ actions[c][idx[c]].action = "keep_both"
        /\ stats.errors = 1
        /\ <<actions[c][idx[c]].path, "c1">> \in conflict_copies
        /\ local_fs[actions[c][idx[c]].path] = Some(File("c1", 0))

\* C24: while a plan is executed every action is attempted exactly once, in
\* plan order: the executor moves from one action to the next one of the
\* plan, a request is only ever sent for the action it is at, and it leaves
\* the loop only after the last action; an action that fails adds one to
\* the error counter and the executor goes on with the rest of the plan.
EndsAction(c) == pc[c] = "execute" /\ idx'[c] # idx[c]

ExecutorStep(c) ==
    /\ EndsAction(c) =>
          /\ idx'[c] = idx[c] + 1
          /\ idx[c] < Len(actions[c])
          /\ actions'[c] = actions[c]
          /\ pc'[c] = "execute"
          /\ \/ stats' = [stats EXCEPT !.files_synced = @ + 1]
             \/ stats' = [stats EXCEPT !.errors = @ + 1]
    /\ (pc[c] = "execute" /\ inflight[c] = NoRequest /\ IsSome(inflight'[c])) =>
          /\ idx[c] < Len(actions[c])
          /\ Val(inflight'[c]).path = Cur(c).path
    /\ (pc[c] = "execute" /\ pc'[c] # "execute") =>
          /\ idx[c] = Len(actions[c])
          /\ pc'[c] = "save_open"

C24_FailureDoesNotAbortThePass ==
    [][\A c \in Callers : ExecutorStep(c)]_vars

\* the first action of a plan of two failed and the second is under way
C24_Witness ==
    \E c \in Callers :
        /\ pc[c] = "execute" /\ passes = 1
        /\ Len(actions[c]) = 2 /\ idx[c] = 1
        /\ stats.errors = 1 /\ stats.files_synced = 0
        /\ IsSome(inflight[c])

\* C31: every step that ends an action of a plan adds exactly one to exactly
\* one of files_synced and errors: to files_synced when the effect of the
\* action is in place after the step, to errors when an operation of the
\* action failed or the file it had to read was missing; the two counters
\* change at no other step, except errors when a pass fails as a whole, and
\* they never decrease.
EffectInPlace(c) ==
    LET a == Cur(c)
        p == Cur(c).path
    IN  CASE a.action = "skip" ->
               UNCHANGED <<local_fs, remote_fs, conflict_copies>>
          [] a.action = "delete_local" -> local_fs'[p] = None
          [] a.action = "delete_remote" -> remote_fs'[p] = None
          [] a.action = "upload" ->
               /\ IsSome(remote_fs'[p])
               /\ Val(remote_fs'[p]).content = Val(inflight[c]).content
          [] a.action \in {"download", "keep_both"} ->
               /\ IsSome(remote_fs[p]) /\ IsSome(local_fs'[p])
               /\ Val(local_fs'[p]).content = Val(remote_fs[p]).content

ActionFailed(c) ==
    \/ disturbances' # disturbances
    \/ /\ Cur(c).action = "upload"
       /\ inflight[c] = NoRequest /\ ~IsSome(local_fs[Cur(c).path])
    \/ Cur(c).action \in {"download", "keep_both"} /\ ~IsSome(remote_fs[Cur(c).path])

CountsItsOutcome(c) ==
    EndsAction(c) =>
        \/ /\ stats' = [stats EXCEPT !.files_synced = @ + 1]
           /\ EffectInPlace(c)
           /\ ~ActionFailed(c)
        \/ /\ stats' = [stats EXCEPT !.errors = @ + 1]
           /\ ActionFailed(c)

CountersMonotone ==
    /\ stats'.files_synced >= stats.files_synced
    /\ stats'.errors >= stats.errors
    /\ stats'.files_synced # stats.files_synced => \E c \in Callers : EndsAction(c)
    /\ stats'.errors # stats.errors =>
          \E c \in Callers : EndsAction(c) \/ (pc[c] = "scan_local" /\ pc'[c] = "idle")

C31_EveryActionCountedOnce ==
    [][(\A c \in Callers : CountsItsOutcome(c)) /\ CountersMonotone]_vars

\* a plan of two actions has been executed: one took effect, one failed
C31_Witness ==
    \E c \in Callers :
        /\ pc[c] = "execute" /\ passes = 1
        /\ Len(actions[c]) = 2 /\ idx[c] = 2 /\ inflight[c] = NoRequest
        /\ stats.files_synced = 1 /\ stats.errors = 1

\* C32: executing a skip sends no request and touches no file: while the
\* executor is at a skip no request of its pass is in flight, and the step
\* that ends the skip leaves the local directory, the workspace and the
\* aside copies as they are and does not add to the error counter.
AtSkip(c) ==
    pc[c] = "execute" /\ idx[c] < Len(actions[c]) /\ Cur(c).action = "skip"

SkipDoesNothing(c) ==
    AtSkip(c) =>
        /\ inflight[c] = NoRequest /\ inflight'[c] = NoRequest
        /\ EndsAction(c) =>
              /\ UNCHANGED <<local_fs, remote_fs, conflict_copies>>
              /\ stats'.errors = stats.errors
              /\ stats'.files_synced = stats.files_synced + 1

C32_SkipPerformsNoIO ==
    [][\A c \in Callers : SkipDoesNothing(c)]_vars

\* a content conflict was skipped under 'ask': both versions are still there
C32_Witness ==
    \E c \in Callers :
        /\ pc[c] = "execute" /\ idx[c] >= 1
        /\ actions[c][idx[c]].action = "skip"
        /\ stats.errors = 0
        /\ LET p == actions[c][idx[c]].path IN
           /\ IsSome(local_fs[p]) /\ IsSome(remote_fs[p])
           /\ Val(local_fs[p]).content # Val(remote_fs[p]).content

\* C34: under a policy other than 'ask', when a full pass in which every
\* action succeeded is followed by a full pass, and nobody changed either side
\* and nothing failed in between, the second pass plans no action.
SecondPassUndisturbed(c) ==
    /\ passes = 2
    /\ pc[c] \in {"execute", "save_open", "save_write", "finish"}
    /\ disturbances = 0
    /\ stats.errors = 0
    /\ conflict_resolution # "ask"

C34_FullPassesConverge ==
    \A c \in Callers : SecondPassUndisturbed(c) => actions[c] = <<>>

\* C25: when a full pass in which nothing failed has updated the snapshot,
\* every path the pass uploaded or downloaded has an entry in the snapshot.
C25_ReconciledPathsAreInSnapshot ==
    \A c \in Callers :
        (pc[c] = "finish" /\ stats.errors = 0) =>
            \A i \in DOMAIN actions[c] :
                actions[c][i].action \in {"upload", "download"}
                    => IsSome(file_metadata[actions[c][i].path])

\* C26: at every step, save_metadata included, the snapshot file holds a
\* complete snapshot document, the previous one or the new one, or does not
\* exist yet; it is never empty or partly written.
C26_SnapshotFileNeverPartial ==
    metadata_file[1] \in {"absent", "data"}

\* C27: a remote scan that fails does not make the pass plan the deletion of
\* a local file that the snapshot tracks, nor a delete conflict for it.
RemoteScanFailed(c) ==
    /\ pc[c] = "scan_remote"
    /\ pc'[c] = "plan"
    /\ remote_files'[c] # get_remote_files

PlannedAfterScan(c, p) ==
    determine_sync_action(conflict_resolution, p, local_files'[c][p],
                          remote_files'[c][p], file_metadata[p])

C27_RemoteScanFailureDeletesNothing ==
    [][\A c \in Callers : RemoteScanFailed(c) =>
          \A p \in Paths :
              (IsSome(file_metadata[p]) /\ IsSome(local_files'[c][p])) =>
                  \/ PlannedAfterScan(c, p) = None
                  \/ /\ Val(PlannedAfterScan(c, p)).action # "delete_local"
                     /\ Val(PlannedAfterScan(c, p)).reason # "delete_conflict"]_vars

\* ======================================= claims on the incremental path
Invoked(i) == tasks[i].state \in {"syncing", "synced"}
Finished(i) == tasks[i].state \in {"synced", "skipped"}
NotifiedAt(i) == tasks[i].wake - DebounceDelay
TasksFor(path) == {k \in DOMAIN tasks : tasks[k].path = path}

\* C2: two local-change notifications for the same path, the second within
\* the debounce window opened by the first, lead to exactly one invocation
\* of sync_single_file for that path: never two, and one once both
\* handle_local_change tasks have finished, whatever the timing of the tasks
\* and however long the request of the sync takes.
C2_TwoNotificationsOneSync ==
    \A i, j \in DOMAIN tasks :
        (/\ i < j
         /\ tasks[i].path = tasks[j].path
         /\ tasks[i].path \notin HiddenPaths
         /\ TasksFor(tasks[i].path) = {i, j}
         /\ NotifiedAt(j) < tasks[i].wake)
        => /\ ~(Invoked(i) /\ Invoked(j))
           /\ (Finished(i) /\ Finished(j)) => (Invoked(i) \/ Invoked(j))

\* C15: a single-file sync for a path never starts earlier than one full
\* debounce delay after the most recent notification for that path: a later
\* notification postpones the sync that an earlier one scheduled.
StartsSync(i) ==
    /\ i \in DOMAIN tasks
    /\ tasks[i].state = "sleeping"
    /\ tasks'[i].state \in {"syncing", "synced"}

QuietForOneDelay(path) ==
    \A k \in TasksFor(path) : now >= NotifiedAt(k) + DebounceDelay

C15_SyncWaitsForQuietPeriod ==
    [][\A i \in 1..MaxNotify : StartsSync(i) => QuietForOneDelay(tasks[i].path)]_vars

\* C16: every single-file sync issues exactly one remote operation, chosen by
\* the local state at the moment it runs and not by the kind of the event: an
\* upload when the file exists, a remote delete otherwise.
C16_EverySyncIssuesOneOperation ==
    \A i \in DOMAIN tasks : Invoked(i) => IsSome(tasks[i].req)

\* C16 as the code has it: a single-file sync chooses by the local state at the
\* moment it runs, whatever the kind of the event; it issues an upload of the
\* content it read when the file exists and can be read, a remote delete when
\* the file does not exist, and nothing when the file exists and cannot be
\* read; it never issues a second operation.
RequestForLocalState(path) ==
    IF IsSome(local_fs[path])
    THEN Request("write_file", path, Val(local_fs[path]).content)
    ELSE Request("delete_file", path, "")

SingleFileSyncStep(i) ==
    /\ StartsSync(i) =>
          \/ tasks'[i].req = Some(RequestForLocalState(tasks[i].path))
          \/ tasks'[i].req = None /\ IsSome(local_fs[tasks[i].path])
                /\ tasks'[i].state = "synced"
    /\ (i \in DOMAIN tasks /\ Invoked(i)) => tasks'[i].req = tasks[i].req

C16_SyncDecidesByLocalState ==
    [][\A i \in 1..MaxNotify : SingleFileSyncStep(i)]_vars

\* a file removed and saved again: the sync that the 'deleted' event scheduled
\* uploads
C16_Witness ==
    \E i \in DOMAIN tasks :
        /\ tasks[i].kind = "deleted"
        /\ tasks[i].state = "synced"
        /\ IsSome(tasks[i].req) /\ Val(tasks[i].req).op = "write_file"

\* ================================================ claims on the client
\* C17: a request whose response has not arrived when the 30 s timer of
\* wait_for ends fails with TimeoutError: the timer is never overdue, the
\* error is raised no earlier than 30 s after the wait began, only for a
\* future that got no response, and once it is raised the id of the request
\* is no longer in pending_requests.
TimesOut(r) ==
    /\ calls[r].pc # "raised"
    /\ calls'[r].pc = "raised"
    /\ calls'[r].outcome = <<"timeout">>

TimerNeverOverdue ==
    \A r \in Requesters :
        (calls[r].pc = "waiting" /\ futures[calls[r].id] = Pending)
            => now <= calls[r].deadline

C17_TimeoutReleasesWaiter ==
    /\ []TimerNeverOverdue
    /\ [][\A r \in Requesters : TimesOut(r) =>
             /\ now >= calls[r].deadline
             /\ calls[r].deadline >= RequestTimeout
             /\ futures[calls[r].id] = Cancelled
             /\ calls[r].id \notin pending_requests']_vars

C17_Witness ==
    \E r \in Requesters :
        /\ calls[r].pc = "raised" /\ calls[r].outcome = <<"timeout">>
        /\ now = RequestTimeout
        /\ calls[r].id \notin pending_requests
        /\ reader = "running"

\* C18: a response read for a request whose timeout has fired is dropped
\* silently: no future is settled, the socket stays as it is, and the reader
\* keeps running.
ReadsLateResponse ==
    /\ reader = "running"
    /\ inbox # <<>>
    /\ inbox' = Tail(inbox)
    /\ futures[Head(inbox).id] = Cancelled

C18_LateResponseIsDropped ==
    [][ReadsLateResponse => (reader' = "running" /\ futures' = futures /\ ws' = ws)]_vars

\* C19: with several requests outstanding and responses arriving in any
\* order, a response settles the future registered under its own id only, so
\* a call that returns has the result computed for its own request, and a call
\* that fails with a remote error has the error sent for its own request.
C19_ResponsesRoutedById ==
    /\ \A i \in RequestIds :
          /\ futures[i][1] = "result" => futures[i][2].answers = i
          /\ futures[i][1] = "exception" => futures[i][2][3][3] = i
    /\ \A r \in Requesters :
          /\ calls[r].pc = "returned" =>
                calls[r].outcome = <<"result", ResultFor(RequestOf(r, calls[r].id))>>
          /\ (calls[r].pc = "raised" /\ calls[r].outcome[1] = "remote_error") =>
                \E code \in ErrorCodes :
                    calls[r].outcome[2] = mcp_error(ErrorFor(RequestOf(r, calls[r].id), code))

\* the later of two outstanding requests was answered first
C19_Witness ==
    \E r, q \in Requesters :
        /\ calls[r].pc = "returned"
        /\ calls[q].pc = "waiting"
        /\ calls[q].id < calls[r].id
        /\ calls[q].id \in pending_requests

\* C20: the ids given out by send_request are strictly increasing in call
\* order, so no two requests ever share an id; and an id is never given out
\* without its future being made and registered in the same step: at every
\* suspension point each id given out has a future, and the id of a call
\* whose future is still pending is in pending_requests.
C20_IdsStrictlyIncreasing ==
    /\ \A i, j \in DOMAIN issued : i < j => issued[i] < issued[j]
    /\ \A i \in DOMAIN issued :
          issued[i] < message_id /\ futures[issued[i]] # <<"none">>
    /\ \A r \in Requesters :
          (InCall(r) /\ futures[calls[r].id] = Pending)
              => calls[r].id \in pending_requests
    /\ \A r, q \in Requesters :
          (r # q /\ InCall(r) /\ InCall(q)) => calls[r].id # calls[q].id

\* two calls in flight at once, both between registration and the end of ws.send
C20_Witness ==
    /\ Len(issued) = 2
    /\ \A r \in Requesters : calls[r].pc = "sending"

\* C21: an error response read for a request that is waiting (its future is
\* pending) settles that request's future with an exception made of the
\* code and the message of the response's error object, and removes its id
\* from pending_requests; no other future and no other entry of
\* pending_requests changes; the call then raises that exception.
ReadsErrorFor(i) ==
    /\ reader = "running"
    /\ inbox # <<>>
    /\ inbox' = Tail(inbox)
    /\ "error" \in DOMAIN Head(inbox)
    /\ Head(inbox).id = i
    /\ i \in pending_requests
    /\ futures[i] = Pending

RaisesRemoteError(r) ==
    /\ calls[r].pc = "waiting"
    /\ futures[calls[r].id][1] = "exception"
    /\ calls'[r] # calls[r]

C21_ErrorResponseFailsItsRequest ==
    [][/\ \A i \in RequestIds : ReadsErrorFor(i) =>
             /\ futures'[i] = <<"exception", <<"MCP Error", Head(inbox).error.code,
                                               Head(inbox).error.message>>>>
             /\ i \notin pending_requests'
             /\ \A j \in RequestIds \ {i} :
                   /\ futures'[j] = futures[j]
                   /\ j \in pending_requests' <=> j \in pending_requests
             /\ calls' = calls
       /\ \A r \in Requesters : RaisesRemoteError(r) =>
             /\ calls'[r].pc = "raised"
             /\ calls'[r].outcome = <<"remote_error", futures[calls[r].id][2]>>
             /\ calls[r].id \notin pending_requests']_vars

\* one call failed with the error sent for it while the other still waits
C21_Witness ==
    \E r, q \in Requesters :
        /\ calls[r].pc = "raised"
        /\ calls[r].outcome =
              <<"remote_error",
                mcp_error(ErrorFor(RequestOf(r, calls[r].id), "method_not_found"))>>
        /\ calls[q].pc = "waiting"
        /\ futures[calls[q].id] = Pending
        /\ calls[q].id \in pending_requests

\* C22: a message with a method and no id is dispatched to every handler
\* registered for that method, in registration order, each with the params
\* of the message; a handler that raises does not keep the later ones from
\* being invoked; a method with no handler invokes nothing; and in every
\* case the reader keeps running and no waiter is touched.
ReadsNotification ==
    /\ reader = "running"
    /\ inbox # <<>>
    /\ inbox' = Tail(inbox)
    /\ "id" \notin DOMAIN Head(inbox)
    /\ "method" \in DOMAIN Head(inbox)

DispatchedInOrder(data) ==
    LET handlers == handlers_of(data.method) IN
    /\ Len(invocations') = Len(invocations) + Len(handlers)
    /\ \A k \in 1..Len(invocations) : invocations'[k] = invocations[k]
    /\ \A k \in 1..Len(handlers) :
          /\ invocations'[Len(invocations) + k].handler = handlers[k]
          /\ invocations'[Len(invocations) + k].method = data.method
          /\ invocations'[Len(invocations) + k].params = data.params

C22_NotificationReachesEveryHandler ==
    [][ReadsNotification =>
          /\ DispatchedInOrder(Head(inbox))
          /\ reader' = "running"
          /\ pending_requests' = pending_requests
          /\ futures' = futures]_vars

\* the first of two handlers raised and the second was invoked after it
C22_Witness ==
    /\ Len(invocations) = 2
    /\ invocations[1].raised /\ ~invocations[2].raised
    /\ invocations[1].handler # invocations[2].handler
    /\ invocations[1].method = invocations[2].method
    /\ reader = "running"

\* C23: a uri that is in subscriptions was requested from the server exactly
\* once, whatever calls of subscribe_to_changes were made.
RequestsFor(uri) ==
    IF \E t \in Subscribers : UriOf(t) = uri THEN Len(issued) ELSE 0

C23_SubscribedUriRequestedOnce ==
    \A uri \in subscriptions : RequestsFor(uri) = 1

\* C23 as the code has it: a call of subscribe_to_changes for a uri that is
\* in subscriptions sends nothing and changes nothing but its own return; a
\* call for a uri that is not in subscriptions sends one request, also when
\* an earlier request for the uri failed or is still waiting; subscriptions
\* only grows, by the uri of a call whose request got a result; so a uri in
\* subscriptions was requested at least once.
SubscribeCalled(t) == ~InCall(t) /\ calls'[t] # calls[t]

SubscribeStep ==
    /\ \A t \in Subscribers : SubscribeCalled(t) =>
          IF UriOf(t) \in subscriptions
          THEN /\ UNCHANGED <<issued, message_id, server_rx, pending_requests,
                              futures, subscriptions>>
               /\ calls'[t].pc = "returned"
          ELSE /\ Len(issued') = Len(issued) + 1
               /\ InCall(t)'
    /\ subscriptions' # subscriptions =>
          \E t \in Subscribers :
             /\ calls[t].pc = "waiting"
             /\ futures[calls[t].id][1] = "result"
             /\ calls'[t].pc = "returned"
             /\ subscriptions' = subscriptions \cup {UriOf(t)}
    /\ Len(issued') > Len(issued) =>
          \E t \in Subscribers : SubscribeCalled(t) /\ UriOf(t) \notin subscriptions

C23_ResubscribingIsNoOp ==
    /\ [](\A uri \in subscriptions : RequestsFor(uri) >= 1)
    /\ [][SubscribeStep]_vars

\* a second call found the uri subscribed by the first and sent nothing
C23_Witness ==
    \E t, u \in Subscribers :
        /\ t # u
        /\ UriOf(t) \in subscriptions
        /\ calls[t].pc = "returned" /\ calls[t].outcome[1] = "result"
        /\ calls[u].pc = "returned" /\ calls[u].outcome = <<"already_subscribed">>
        /\ Len(issued) = 1

\* C28: when the channel cannot be opened or the server refuses the
\* handshake, connect() ends by raising ConnectionError.
ChannelNotOpened == connected # None /\ ws = "none"
HandshakeRejected ==
    /\ calls[Connector].pc = "raised"
    /\ calls[Connector].outcome[1] = "remote_error"

HandshakeFailed == calls[Connector].pc = "raised"
HandshakeSucceeded ==
    /\ calls[Connector].pc = "returned"
    /\ futures[calls[Connector].id] = <<"result", ResultFor(RequestOf(Connector, 1))>>

ConnectOutcome ==
    /\ connected # None => connected[1] = "returned"
    /\ (ChannelNotOpened \/ HandshakeFailed) =>
          connected = <<"returned", FALSE>> /\ ~is_initialized
    /\ is_initialized <=> HandshakeSucceeded
    /\ connected = <<"returned", TRUE>> <=> HandshakeSucceeded
    /\ connected = None =>
          (ws = "none" \/ calls[Connector] = NoCall \/ InCall(Connector))

InitializedByHandshake ==
    is_initialized' # is_initialized =>
        /\ calls[Connector].pc = "waiting"
        /\ futures[calls[Connector].id][1] = "result"
        /\ is_initialized'

ReaderPops(i) ==
    /\ reader = "running"
    /\ inbox # <<>>
    /\ inbox' = Tail(inbox)
    /\ i \in pending_requests
    /\ i \notin pending_requests'

C29_WaiterSettledAtMostOnce ==
    [][\A i \in RequestIds :
          /\ ReaderPops(i) => futures[i] = Pending
          /\ futures'[i] # futures[i] => futures[i] \in {<<"none">>, Pending}]_vars

\* ====================================== claims on the continuous mode
\* C35: when the single-file sync has uploaded the local edit of a tracked
\* path and was told it succeeded, and nobody else wrote the remote copy,
\* the next full pass, whose scans see the two sides as the upload left
\* them, plans neither a content conflict nor a download for the path.
ConflictReasons ==
    {"conflict_local_wins", "conflict_remote_wins", "conflict_keep_both",
     "conflict_requires_resolution"}

UploadedBySingleFileSync(p) ==
    /\ \E i \in DOMAIN tasks :
          /\ tasks[i].path = p /\ tasks[i].state = "synced"
          /\ IsSome(tasks[i].req) /\ Val(tasks[i].req).op = "write_file"
    /\ \A i \in DOMAIN tasks : tasks[i].state \notin {"sleeping", "syncing"}
    /\ disturbances = 0
    /\ IsSome(local_fs[p]) /\ IsSome(remote_fs[p])
    /\ Val(remote_fs[p]).content = Val(local_fs[p]).content

\* what a full pass that starts now, and scans the two sides as they are,
\* plans for the path
PlannedIfPassStartsNow(p) ==
    determine_sync_action(conflict_resolution, p, get_local_files[p],
                          get_remote_files[p], file_metadata[p])

C35_IncrementalUploadIsNoConflict ==
    \A p \in Paths :
        (UploadedBySingleFileSync(p) /\ ~is_syncing /\ IsSome(file_metadata[p])) =>
            \/ PlannedIfPassStartsNow(p) = None
            \/ /\ Val(PlannedIfPassStartsNow(p)).action # "download"
               /\ Val(PlannedIfPassStartsNow(p)).reason \notin ConflictReasons

\* C37: every full pass that starts ends, and when it ends, by completing, by
\* failing or by being cancelled, is_syncing is false again: the guard is set
\* exactly while a call of sync_files is inside its try block, so a later
\* call is never dropped on account of a pass that no longer runs.
GuardMatchesPass == is_syncing <=> (\E c \in Callers : InPass(c))

PassEndClearsGuard ==
    \A c \in Callers : (InPass(c) /\ ~InPass(c)') => ~is_syncing'

C37_PassAlwaysReturnsToIdle ==
    /\ []GuardMatchesPass
    /\ [][PassEndClearsGuard]_vars
    /\ (is_syncing ~> ~is_syncing)

\* a pass was cancelled while it executed its plan, and the next one started
C37_Witness ==
    /\ last_call["periodic"] = "started"
    /\ passes = 2
    /\ is_syncing
    /\ pc["periodic"] = "scan_local"
    /\ stats.last_sync = None
    /\ stats.errors = 0

\* C36: a path that the engine did not know at startup, that no remote scan
\* can have seen and that was never uploaded successfully, because it never
\* existed in the workspace, is never planned for delete_local; in particular
\* the new local file whose upload failed is kept by the passes that follow.
DeleteLocalPlanned(p) ==
    \E c \in Callers :
        /\ pc[c] = "execute"
        /\ \E k \in DOMAIN actions[c] :
              actions[c][k].action = "delete_local" /\ actions[c][k].path = p

UnknownAtStartup(p) == file_metadata[p] = None

NeverOnRemote(p) == [](remote_fs[p] = None)

C36_DeleteLocalOnlyAfterRemoteSeen ==
    \A p \in Paths :
        (UnknownAtStartup(p) /\ NeverOnRemote(p)) => [](~DeleteLocalPlanned(p))

\* C38: the table of pending requests holds no id of a call of send_request
\* that has returned or raised, whatever ended the call: a result, a remote
\* error, the timeout or a failure to send.
CallEnded(r) == calls[r].pc \in {"returned", "raised"}

C38_EndedCallLeavesNoWaiter ==
    \A r \in Clients : CallEnded(r) => calls[r].id \notin pending_requests

\* C39: calls of subscribe_to_changes for the same uri that overlap send at
\* most one resources/subscribe request between them: at no time are two
\* requests for one uri awaiting their responses; and the uri of a call is in
\* subscriptions only once a request for it has returned a result.
SubscribeRequestsInFlight(uri) ==
    {calls[t].id : t \in {u \in Subscribers : UriOf(u) = uri /\ InCall(u)}}

SubscribedAfterSuccess(uri) ==
    uri \in subscriptions =>
        \E id \in DOMAIN futures : futures[id][1] = "result" /\ id \in
            {issued[k] : k \in DOMAIN issued}

C39_ConcurrentSubscribesSendOnce ==
    \A t \in Subscribers :
        /\ Cardinality(SubscribeRequestsInFlight(UriOf(t))) <= 1
        /\ SubscribedAfterSuccess(UriOf(t))

\* C40: a single-file sync and a full pass never have a write or a delete in
\* flight against the same path at the same time.
Mutations == {"write_file", "delete_file"}

PassMutates(p) ==
    \E c \in Callers :
        /\ IsSome(inflight[c])
        /\ Val(inflight[c]).op \in Mutations
        /\ Val(inflight[c]).path = p

SingleFileSyncMutates(p) ==
    \E i \in DOMAIN tasks :
        /\ tasks[i].state = "syncing"
        /\ Val(tasks[i].req).op \in Mutations
        /\ Val(tasks[i].req).path = p

C40_NoOverlappingMutation ==
    \A p \in Paths : ~(PassMutates(p) /\ SingleFileSyncMutates(p))

====
